---- MODULE Spec2Model ----
(***************************************************************************)
(* Model of the kyuudb relational store.                                   *)
(*                                                                         *)
(* Part 1: the store DbStore4 of macros/tests/store.rs and the operations  *)
(* that the macro impl_rel! generates for Track, Album and Artist.         *)
(*                                                                         *)
(* Identifiers are modelled by the raw NonZeroU32 they wrap: the Default   *)
(* identifier is 1, the first identifier handed out by insert is 2, and    *)
(* the niche value 0 stands for Option::None.  Strings (names) are         *)
(* modelled by small naturals.                                             *)
(***************************************************************************)
EXTENDS Integers, Sequences, FiniteSets, TLC

\* ------------------------------------------------------------------ bounds
MaxArtistId == 3
MaxAlbumId == 3
MaxTrackId == 3
MaxLog == 6
MaxLogDeep == 13
MaxTime == 1
MaxTableId == 3
MaxRevision == 2
MaxMusicId == 2
MaxMusicRevision == 3
MaxCircuitId == 2
MaxDeltas == 5
MaxGenId == 2
MaxScanId == 2
MaxRelId == 4

\* the values of the plain attributes: constructors use the first of each,
\* setters and update closures any of them
Names == {1, 2}
Years == {1, 2}
NewNames == {1}
NewYears == {1}

\* ------------------------------------------------------- program constants
\* NonZeroU32::MIN and NonZeroU32::MAX.  MAX is 2^32 - 1 in the program; TLC's
\* integers end at 2^31 - 1, which stands for it here (every identifier of the
\* model is far below both).
IdxMIN == 1
IdxMAX == 2147483647
None == 0

\* ------------------------------------------------------------------ state
VARIABLES
    timestamp,              \* DbStore4.timestamp
    changes,                \* DbStore4.changes.changes
    Album_next_id,
    Track_next_id,
    Artist_next_id,
    clustered_Track,        \* (AlbumId, TrackId) -> Track
    pk_Track,               \* TrackId -> (AlbumId, TrackId)
    pk_Album,               \* AlbumId -> Album
    pk_Artist,              \* ArtistId -> Artist
    fk_Track_album,         \* set of (AlbumId, TrackId)
    fk_Track_artist,        \* set of (ArtistId, TrackId)
    fk_Album_album_artist,  \* set of (ArtistId, AlbumId)
    panicked,               \* an unwrap()/expect() failed: the program aborted
    limit,                  \* the callers stop once the change log is longer
    strict,                 \* the callers make only calls that return no error
    last,                   \* the call made by the last step, with its result
    issued,                 \* per table, the identifiers insert has returned, in order
    mode,                   \* which of the stores the callers of this run use
    tables,                 \* a Table<T> ("self") and the place of its clone ("copy")
    snapshot,               \* where the snapshot of the table is read, "none" before it is taken
    musicdb,                \* a generated store: one Table per entity
    musicdb_prev,           \* the snapshot of the generated store
    circuit,                \* the operators of circuit.rs and the vectors of their driver
    gen,                    \* a schema, what generate_store made of it, and the store made
    range_scan,             \* an ordered set of pairs and the last range scan over it
    rel_vec                 \* a to-many relation field and the last RelOps call on it

storeVars == <<timestamp, changes, Album_next_id, Track_next_id, Artist_next_id,
               clustered_Track, pk_Track, pk_Album, pk_Artist,
               fk_Track_album, fk_Track_artist, fk_Album_album_artist>>

vars == <<timestamp, changes, Album_next_id, Track_next_id, Artist_next_id,
          clustered_Track, pk_Track, pk_Album, pk_Artist,
          fk_Track_album, fk_Track_artist, fk_Album_album_artist,
          panicked, limit, strict, last,
          issued, mode, tables, snapshot, musicdb, musicdb_prev, circuit, gen, range_scan, rel_vec>>

\* the state outside DbStore4, apart from the identifiers issued
tableVars == <<mode, tables, snapshot, musicdb, musicdb_prev, circuit, gen, range_scan, rel_vec>>

\* ---------------------------------------------------------------- helpers
EmptyMap == [x \in {} |-> 0]

MapPut(m, k, v) == [x \in (DOMAIN m) \cup {k} |-> IF x = k THEN v ELSE m[x]]

MapDel(m, k) == [x \in (DOMAIN m) \ {k} |-> m[x]]

\* Ord for pairs (derived lexicographic order of tuples)
LexLeq(p, q) == p[1] < q[1] \/ (p[1] = q[1] /\ p[2] <= q[2])

RECURSIVE SortedSeq(_)
SortedSeq(S) ==
    IF S = {} THEN <<>>
    ELSE LET m == CHOOSE x \in S : \A y \in S : x <= y
         IN <<m>> \o SortedSeq(S \ {m})

\* --------------------------------------------------------------------- Idx
to_u32(i) == i - 1

from_u32(n) == n + 1

next(i) == from_u32(to_u32(i) + 1)

Default == from_u32(0)

\* range_helper with the end bound one below (a, MAX)
range_helper_below_max(a) == [start |-> <<a, IdxMIN>>, end |-> <<a, IdxMAX - 1>>]

\* range_helper(a..=a): the two Included bounds of the scan
range_helper(a) == [start |-> <<a, IdxMIN>>, end |-> <<a, IdxMAX>>]

\* index.range(range_helper(a..=a)).map(|((_, v), _)| *v), in key order
RangeOf(index, a) ==
    LET b == range_helper(a)
    IN SortedSeq({p[2] : p \in {q \in index : LexLeq(b.start, q) /\ LexLeq(q, b.end)}})

\* ------------------------------------------------- the three impl_rel! uses
Entities == {"Track", "Album", "Artist"}

Attrs(r) ==
    CASE r = "Track" -> <<"name">>
      [] r = "Album" -> <<"name", "year">>
      [] r = "Artist" -> <<"name">>

Fks(r) ==
    CASE r = "Track" -> << <<"album", "Album">>, <<"artist", "Artist">> >>
      [] r = "Album" -> <<>>
      [] r = "Artist" -> <<>>

NullFks(r) ==
    CASE r = "Track" -> <<>>
      [] r = "Album" -> << <<"album_artist", "Artist">> >>
      [] r = "Artist" -> <<>>

Clustered(r) == r = "Track"

ClusterKey(r, val) == <<val.album, val.id>>

Cascade(r) ==
    CASE r = "Track" -> <<>>
      [] r = "Album" -> << <<"Track", "album">> >>
      [] r = "Artist" -> << <<"Track", "artist">> >>

Nullify(r) ==
    CASE r = "Track" -> <<>>
      [] r = "Album" -> <<>>
      [] r = "Artist" -> << <<"Album", "album_artist">> >>

Deny(r) ==
    CASE r = "Track" -> <<>>
      [] r = "Album" -> <<>>
      [] r = "Artist" -> <<>>

\* ------------------------------------------------------------ the store
\* The store as one value, as the operations receive it (db: &mut DbStore4).
Db ==
    [timestamp |-> timestamp,
     changes |-> changes,
     next_id |-> [Track |-> Track_next_id, Album |-> Album_next_id, Artist |-> Artist_next_id],
     clustered |-> [Track |-> clustered_Track],
     pk |-> [Track |-> pk_Track, Album |-> pk_Album, Artist |-> pk_Artist],
     fk |-> [Track |-> [album |-> fk_Track_album, artist |-> fk_Track_artist],
             Album |-> [album_artist |-> fk_Album_album_artist]],
     panicked |-> panicked]

Change(t, r, field, what, id, val) ==
    [timestamp |-> t, r |-> r, field |-> field, what |-> what, id |-> id, val |-> val]

\* ChangeSet::push with the record put at the front of the vector
push_front(db, t, r, field, what, id, val) ==
    [db EXCEPT !.changes = <<Change(t, r, field, what, id, val)>> \o @]

\* ChangeSet::push
push(db, t, r, field, what, id, val) ==
    [db EXCEPT !.changes = Append(@, Change(t, r, field, what, id, val))]

\* the ChangeKind of a record: the record without its timestamp
KindOf(c) == [r |-> c.r, field |-> c.field, what |-> c.what, id |-> c.id, val |-> c.val]

\* ChangeSet::since with rposition testing timestamp <= T
since_strict(cs, T) ==
    LET hits == {i \in DOMAIN cs : cs[i].timestamp <= T}
        last_ == IF hits = {} THEN 0 ELSE CHOOSE i \in hits : \A j \in hits : j <= i
    IN [j \in 1..(Len(cs) - last_) |-> KindOf(cs[last_ + j])]

\* ChangeSet::since: rposition(|c| c.timestamp < T).map(|i| i + 1).unwrap_or(0),
\* then the kinds of changes[last..]
since(cs, T) ==
    LET hits == {i \in DOMAIN cs : cs[i].timestamp < T}
        last_ == IF hits = {} THEN 0 ELSE CHOOSE i \in hits : \A j \in hits : j <= i
    IN [j \in 1..(Len(cs) - last_) |-> KindOf(cs[last_ + j])]

\* the row fields written by $r::fetch_mut(db, key).unwrap().field = v
SetField(db, r, key, field, v) ==
    IF Clustered(r)
    THEN [db EXCEPT !.clustered[r][db.pk[r][key]][field] = v]
    ELSE [db EXCEPT !.pk[r][key][field] = v]

Panic(db) == [db EXCEPT !.panicked = TRUE]

NoRow == [id |-> None]

\* ------------------------------------------------------------ impl_rel!
\* before_insert without the check of the optional foreign keys
before_insert_required_only(db, r, inserting) ==
    IF inserting.id \in DOMAIN db.pk[r] THEN "EntityNotFound"
    ELSE IF \E i \in DOMAIN Fks(r) :
                inserting[Fks(r)[i][1]] \notin DOMAIN db.pk[Fks(r)[i][2]]
         THEN "ForeignKeyViolation"
    ELSE "Ok"

before_insert(db, r, inserting) ==
    IF inserting.id \in DOMAIN db.pk[r] THEN "EntityNotFound"
    ELSE IF \E i \in DOMAIN Fks(r) :
                inserting[Fks(r)[i][1]] \notin DOMAIN db.pk[Fks(r)[i][2]]
         THEN "ForeignKeyViolation"
    ELSE IF \E i \in DOMAIN NullFks(r) :
                /\ inserting[NullFks(r)[i][1]] # None
                /\ inserting[NullFks(r)[i][1]] \notin DOMAIN db.pk[NullFks(r)[i][2]]
         THEN "ForeignKeyViolation"
    ELSE "Ok"

\* fetch and fetch_mut: the row, or EntityNotFound
fetch(db, r, key) ==
    IF key \notin DOMAIN db.pk[r] THEN [ok |-> FALSE, val |-> NoRow]
    ELSE LET v == db.pk[r][key]
         IN IF Clustered(r)
            THEN IF v \in DOMAIN db.clustered[r]
                 THEN [ok |-> TRUE, val |-> db.clustered[r][v]]
                 ELSE [ok |-> FALSE, val |-> NoRow]
            ELSE [ok |-> TRUE, val |-> v]

RECURSIVE before_delete(_, _, _)
RECURSIVE before_delete_rows(_, _, _)
RECURSIVE before_delete_cascades(_, _, _)

\* the body of the cascade loop of before_delete, over the rows of one index
before_delete_rows(db, c, vs) ==
    IF vs = <<>> THEN "Ok"
    ELSE LET f == fetch(db, c, Head(vs))
         IN IF ~f.ok THEN "panic"   \* expect("foreign key integrity error")
            ELSE LET res == before_delete(db, c, f.val)
                 IN IF res # "Ok" THEN res
                    ELSE before_delete_rows(db, c, Tail(vs))

\* the cascade loops of before_delete, one per declared cascade relation
before_delete_cascades(db, pk, rels) ==
    IF rels = <<>> THEN "Ok"
    ELSE LET c == Head(rels)
             res == before_delete_rows(db, c[1], RangeOf(db.fk[c[1]][c[2]], pk))
         IN IF res # "Ok" THEN res
            ELSE before_delete_cascades(db, pk, Tail(rels))

before_delete(db, r, deleted) ==
    LET res == before_delete_cascades(db, deleted.id, Cascade(r))
    IN IF res # "Ok" THEN res
       ELSE IF \E i \in DOMAIN Deny(r) :
                   \E p \in db.fk[Deny(r)[i][1]][Deny(r)[i][2]] : p[1] = deleted.id
            THEN "RelationshipDeniedDelete"
       ELSE "Ok"

\* the change records pushed for the fields of a row, in declaration order
FieldChanges(t, r, what, row) ==
    LET attrs == [i \in 1..Len(Attrs(r)) |->
                    Change(t, r, Attrs(r)[i], what, row.id, row[Attrs(r)[i]])]
        fks == [i \in 1..Len(Fks(r)) |->
                    Change(t, r, Fks(r)[i][1], what, row.id, row[Fks(r)[i][1]])]
        nullfks == [i \in 1..Len(NullFks(r)) |->
                    Change(t, r, NullFks(r)[i][1], what, row.id, row[NullFks(r)[i][1]])]
    IN attrs \o fks \o SelectSeq(nullfks, LAMBDA c : c.val # None)

IsFk(r, f) == \E i \in DOMAIN Fks(r) : Fks(r)[i][1] = f

HasFks(r) == Fks(r) # <<>> \/ NullFks(r) # <<>>

\* "update foreign key indices" of delete_inner
remove_fk_entries(db, r, row) ==
    IF ~HasFks(r) THEN db
    ELSE [db EXCEPT !.fk[r] =
            [f \in DOMAIN @ |->
                IF IsFk(r, f) \/ row[f] # None THEN @[f] \ {<<row[f], row.id>>} ELSE @[f]]]

\* "first, update foreign key indices" of insert
insert_fk_entries(db, r, row) ==
    IF ~HasFks(r) THEN db
    ELSE [db EXCEPT !.fk[r] =
            [f \in DOMAIN @ |->
                IF IsFk(r, f) \/ row[f] # None THEN @[f] \cup {<<row[f], row.id>>} ELSE @[f]]]

RECURSIVE delete_inner(_, _, _)
RECURSIVE cascade_rows(_, _, _)
RECURSIVE cascade_rels(_, _, _)
RECURSIVE nullify_rows(_, _, _, _)
RECURSIVE nullify_rels(_, _, _)

\* the cascade loop stopping after its first row
cascade_rows_first_only(db, c, vs) ==
    IF vs = <<>> \/ db.panicked THEN db
    ELSE delete_inner(db, c, Head(vs)).db

\* for v in to_delete { $cascade::delete_inner(db, v)?; }
cascade_rows(db, c, vs) ==
    IF vs = <<>> \/ db.panicked THEN db
    ELSE cascade_rows(delete_inner(db, c, Head(vs)).db, c, Tail(vs))

\* "delete cascade": one collect-and-loop block per declared relation
cascade_rels(db, pk, rels) ==
    IF rels = <<>> \/ db.panicked THEN db
    ELSE LET c == Head(rels)
         IN cascade_rels(cascade_rows(db, c[1], RangeOf(db.fk[c[1]][c[2]], pk)),
                         pk, Tail(rels))

\* for v in to_nullify { $nullify::fetch_mut(db, v).unwrap().$nullify_fk = None; }
nullify_rows(db, n, nfk, vs) ==
    IF vs = <<>> \/ db.panicked THEN db
    ELSE IF ~fetch(db, n, Head(vs)).ok THEN Panic(db)
    ELSE nullify_rows(SetField(db, n, Head(vs), nfk, None), n, nfk, Tail(vs))

\* "nullify": one collect-and-loop block per declared relation
nullify_rels(db, pk, rels) ==
    IF rels = <<>> \/ db.panicked THEN db
    ELSE LET n == Head(rels)
         IN nullify_rels(nullify_rows(db, n[1], n[2], RangeOf(db.fk[n[1]][n[2]], pk)),
                         pk, Tail(rels))

\* delete_inner pushing the entity record before the field records
delete_inner_entity_first(db, r, key) ==
    IF key \notin DOMAIN db.pk[r] THEN [db |-> Panic(db), deleted |-> NoRow]
    ELSE LET d0 == db.pk[r][key]
             db1 == [db EXCEPT !.pk[r] = MapDel(@, key)]
         IN IF Clustered(r) /\ d0 \notin DOMAIN db1.clustered[r]
            THEN [db |-> Panic(db1), deleted |-> NoRow]
            ELSE LET deleted == IF Clustered(r) THEN db1.clustered[r][d0] ELSE d0
                     db2 == IF Clustered(r)
                            THEN [db1 EXCEPT !.clustered[r] = MapDel(@, d0)]
                            ELSE db1
                     t == db2.timestamp
                     db3 == [db2 EXCEPT !.changes =
                                @ \o <<Change(t, r, "", "Removed", deleted.id, None)>>
                                  \o FieldChanges(t, r, "Removed", deleted)]
                     db4 == remove_fk_entries(db3, r, deleted)
                     db5 == cascade_rels(db4, deleted.id, Cascade(r))
                     db6 == nullify_rels(db5, deleted.id, Nullify(r))
                 IN [db |-> db6, deleted |-> deleted]

\* $r::delete_inner
delete_inner(db, r, key) ==
    IF key \notin DOMAIN db.pk[r] THEN [db |-> Panic(db), deleted |-> NoRow]
    ELSE LET d0 == db.pk[r][key]
             db1 == [db EXCEPT !.pk[r] = MapDel(@, key)]
         IN IF Clustered(r) /\ d0 \notin DOMAIN db1.clustered[r]
            THEN [db |-> Panic(db1), deleted |-> NoRow]
            ELSE LET deleted == IF Clustered(r) THEN db1.clustered[r][d0] ELSE d0
                     db2 == IF Clustered(r)
                            THEN [db1 EXCEPT !.clustered[r] = MapDel(@, d0)]
                            ELSE db1
                     t == db2.timestamp
                     db3 == [db2 EXCEPT !.changes =
                                @ \o FieldChanges(t, r, "Removed", deleted)
                                  \o <<Change(t, r, "", "Removed", deleted.id, None)>>]
                     db4 == remove_fk_entries(db3, r, deleted)
                     db5 == cascade_rels(db4, deleted.id, Cascade(r))
                     db6 == nullify_rels(db5, deleted.id, Nullify(r))
                 IN [db |-> db6, deleted |-> deleted]

\* delete treating a missing row as nothing to do
delete_missing_ok(db, r, key) ==
    LET v == fetch(db, r, key)
    IN IF ~v.ok THEN [db |-> db, res |-> "Ok", deleted |-> NoRow]
       ELSE LET chk == before_delete(db, r, v.val)
            IN IF chk = "panic" THEN [db |-> Panic(db), res |-> "panic", deleted |-> NoRow]
               ELSE IF chk # "Ok" THEN [db |-> db, res |-> chk, deleted |-> NoRow]
               ELSE LET d == delete_inner(db, r, key)
                    IN [db |-> d.db,
                        res |-> IF d.db.panicked THEN "panic" ELSE "Ok",
                        deleted |-> d.deleted]

delete(db, r, key) ==
    LET v == fetch(db, r, key)
    IN IF ~v.ok THEN [db |-> db, res |-> "EntityNotFound", deleted |-> NoRow]
       ELSE LET chk == before_delete(db, r, v.val)
            IN IF chk = "panic" THEN [db |-> Panic(db), res |-> "panic", deleted |-> NoRow]
               ELSE IF chk # "Ok" THEN [db |-> db, res |-> chk, deleted |-> NoRow]
               ELSE LET d == delete_inner(db, r, key)
                    IN [db |-> d.db,
                        res |-> IF d.db.panicked THEN "panic" ELSE "Ok",
                        deleted |-> d.deleted]

\* insert_commit pushing the field records without the entity record
insert_commit_fields_only(db, r, val, id) ==
    LET db1 == insert_fk_entries(db, r, val)
        t == db1.timestamp
        db2 == [db1 EXCEPT !.changes = @ \o FieldChanges(t, r, "Inserted", val)]
        db3 == IF Clustered(r)
               THEN [db2 EXCEPT !.clustered[r] = MapPut(@, ClusterKey(r, val), val)]
               ELSE db2
        db4 == [db3 EXCEPT !.pk[r] =
                    MapPut(@, val.id, IF Clustered(r) THEN ClusterKey(r, val) ELSE val)]
    IN [db4 EXCEPT !.next_id[r] = id]

\* insert, after before_insert has accepted the row: indices, change records,
\* the row itself and the identifier counter
insert_commit(db, r, val, id) ==
    LET db1 == insert_fk_entries(db, r, val)
        t == db1.timestamp
        db2 == [db1 EXCEPT !.changes =
                    @ \o <<Change(t, r, "", "Inserted", val.id, None)>>
                      \o FieldChanges(t, r, "Inserted", val)]
        db3 == IF Clustered(r)
               THEN [db2 EXCEPT !.clustered[r] = MapPut(@, ClusterKey(r, val), val)]
               ELSE db2
        db4 == [db3 EXCEPT !.pk[r] =
                    MapPut(@, val.id, IF Clustered(r) THEN ClusterKey(r, val) ELSE val)]
    IN [db4 EXCEPT !.next_id[r] = id]

\* insert with the counter stored before the row is checked
insert_counter_first(db, r, f) ==
    LET id == next(db.next_id[r])
        val == f[id]
        chk == before_insert(db, r, val)
    IN IF chk # "Ok" THEN [db |-> [db EXCEPT !.next_id[r] = id], res |-> chk, id |-> None]
       ELSE [db |-> insert_commit(db, r, val, id), res |-> "Ok", id |-> id]

\* f is the constructor: a function from the identifier to the row
insert(db, r, f) ==
    LET id == next(db.next_id[r])
        val == f[id]
        chk == before_insert(db, r, val)
    IN IF chk # "Ok" THEN [db |-> db, res |-> chk, id |-> None]
       ELSE [db |-> insert_commit(db, r, val, id), res |-> "Ok", id |-> id]

\* f, the closure of update, as the set of (field, value) assignments it makes
ApplyPatch(row, f) ==
    [x \in DOMAIN row |->
        IF \E q \in f : q[1] = x THEN (CHOOSE q \in f : q[1] = x)[2] ELSE row[x]]

\* the identifiers a constructor can be called with
IdArgs == 1..(MaxArtistId + MaxAlbumId + MaxTrackId)

update(db, r, key, f) ==
    LET d == delete(db, r, key)
    IN IF d.res # "Ok" THEN [db |-> d.db, res |-> d.res]
       ELSE LET val == ApplyPatch(d.deleted, f)
                i == insert(d.db, r, [x \in IdArgs |-> val])
            IN [db |-> i.db, res |-> i.res]

\* $pkty::set_$fk
set_fk(db, r, self, fk, v) ==
    LET t == db.timestamp
        val == fetch(db, r, self)
    IN IF ~val.ok THEN [db |-> db, res |-> "EntityNotFound"]
       ELSE LET old_fk == val.val[fk]
                db1 == SetField(db, r, self, fk, v)
                db2 == [db1 EXCEPT !.fk[r][fk] = @ \ {<<old_fk, self>>}]
                db3 == push(db2, t, r, fk, "Removed", self, old_fk)
                db4 == [db3 EXCEPT !.fk[r][fk] = @ \cup {<<v, self>>}]
                db5 == push(db4, t, r, fk, "Inserted", self, v)
            IN [db |-> db5, res |-> "Ok"]

\* $pkty::set_$nullfk
set_nullfk(db, r, self, nullfk, v) ==
    LET val == fetch(db, r, self)
    IN IF ~val.ok THEN [db |-> db, res |-> "EntityNotFound"]
       ELSE LET old_nullfk == val.val[nullfk]
                db1 == SetField(db, r, self, nullfk, v)
                db2 == IF old_nullfk # None
                       THEN [db1 EXCEPT !.fk[r][nullfk] = @ \ {<<old_nullfk, self>>}]
                       ELSE db1
                db3 == IF v # None
                       THEN [db2 EXCEPT !.fk[r][nullfk] = @ \cup {<<v, self>>}]
                       ELSE db2
            IN [db |-> db3, res |-> "Ok"]

\* set_$attr recording only the new value
set_attr_inserted_only(db, r, self, attr, v) ==
    LET val == fetch(db, r, self)
    IN IF ~val.ok THEN [db |-> db, res |-> "EntityNotFound"]
       ELSE LET db1 == SetField(db, r, self, attr, v)
                t == db1.timestamp
                db2 == push(db1, t, r, attr, "Inserted", self, v)
            IN [db |-> db2, res |-> "Ok"]

\* $pkty::set_$attr
set_attr(db, r, self, attr, v) ==
    LET val == fetch(db, r, self)
    IN IF ~val.ok THEN [db |-> db, res |-> "EntityNotFound"]
       ELSE LET old == val.val[attr]
                db1 == SetField(db, r, self, attr, v)
                t == db1.timestamp
                db2 == push(db1, t, r, attr, "Removed", self, old)
                db3 == push(db2, t, r, attr, "Inserted", self, v)
            IN [db |-> db3, res |-> "Ok"]

\* ------------------------------------------------------------ the calls
MaxId(r) ==
    CASE r = "Track" -> MaxTrackId
      [] r = "Album" -> MaxAlbumId
      [] r = "Artist" -> MaxArtistId

\* identifiers passed by callers; 1 (the Default identifier) never has a row
IdDom(r) == 1..MaxId(r)

\* the fields a constructor fills in, apart from the identifier it is given
RowInputs(r) ==
    CASE r = "Track" -> [name : NewNames, album : IdDom("Album"), artist : IdDom("Artist")]
      [] r = "Album" -> [name : NewNames, year : NewYears,
                         album_artist : {None} \cup IdDom("Artist")]
      [] r = "Artist" -> [name : NewNames]

\* the constructor |id| $r { id, .. }
Constructor(fields) ==
    [i \in IdArgs |->
        [x \in (DOMAIN fields) \cup {"id"} |-> IF x = "id" THEN i ELSE fields[x]]]

\* the closures passed to update: no change, or one field assigned
Patches(r) ==
    {{}} \cup
    CASE r = "Track" -> {{<<"name", n>>} : n \in Names}
                        \cup {{<<"album", a>>} : a \in IdDom("Album")}
                        \cup {{<<"artist", a>>} : a \in IdDom("Artist")}
      [] r = "Album" -> {{<<"name", n>>} : n \in Names}
                        \cup {{<<"year", y>>} : y \in Years}
                        \cup {{<<"album_artist", a>>} : a \in {None} \cup IdDom("Artist")}
      [] r = "Artist" -> {{<<"name", n>>} : n \in Names}

Errors == {"EntityNotFound", "ForeignKeyViolation", "RelationshipDeniedDelete"}

\* the store after a call, and the record of the call
Return(op, r, key, db, res) ==
    /\ mode = "store"
    /\ strict => res \notin Errors
    /\ timestamp' = db.timestamp
    /\ changes' = db.changes
    /\ Track_next_id' = db.next_id.Track
    /\ Album_next_id' = db.next_id.Album
    /\ Artist_next_id' = db.next_id.Artist
    /\ clustered_Track' = db.clustered.Track
    /\ pk_Track' = db.pk.Track
    /\ pk_Album' = db.pk.Album
    /\ pk_Artist' = db.pk.Artist
    /\ fk_Track_album' = db.fk.Track.album
    /\ fk_Track_artist' = db.fk.Track.artist
    /\ fk_Album_album_artist' = db.fk.Album.album_artist
    /\ panicked' = (db.panicked \/ res = "panic")
    /\ last' = [op |-> op, res |-> res]
    /\ issued' = IF op = "insert" /\ res = "Ok"
                 THEN [issued EXCEPT ![r] = Append(@, key)]
                 ELSE issued
    /\ UNCHANGED <<limit, strict>>
    /\ UNCHANGED tableVars

\* the callers stop calling once the change log is longer than the limit
CanCall == ~panicked /\ Len(changes) <= limit

InsertCall(r, fields) ==
    /\ CanCall
    /\ next(Db.next_id[r]) <= MaxId(r)
    /\ LET out == insert(Db, r, Constructor(fields))
       IN Return("insert", r, next(Db.next_id[r]), out.db, out.res)

DeleteCall(r, key) ==
    /\ CanCall
    /\ LET out == delete(Db, r, key)
       IN Return("delete", r, key, out.db, out.res)

FetchCall(r, key) ==
    /\ ~panicked
    /\ Return("fetch", r, key, Db, IF fetch(Db, r, key).ok THEN "Ok" ELSE "EntityNotFound")

UpdateCall(r, key, f) ==
    /\ CanCall
    /\ key \in DOMAIN Db.pk[r] => next(Db.next_id[r]) <= MaxId(r)
    /\ LET out == update(Db, r, key, f)
       IN Return("update", r, key, out.db, out.res)

SetFkCall(r, key, fk, v) ==
    /\ CanCall
    /\ LET out == set_fk(Db, r, key, fk, v)
       IN Return("set_fk", r, key, out.db, out.res)

SetNullFkCall(r, key, nullfk, v) ==
    /\ ~panicked
    /\ LET out == set_nullfk(Db, r, key, nullfk, v)
       IN Return("set_nullfk", r, key, out.db, out.res)

SetAttrCall(r, key, attr, v) ==
    /\ CanCall
    /\ LET out == set_attr(Db, r, key, attr, v)
       IN Return("set_attr", r, key, out.db, out.res)

Track_insert == \E fields \in RowInputs("Track") : InsertCall("Track", fields)
Album_insert == \E fields \in RowInputs("Album") : InsertCall("Album", fields)
Artist_insert == \E fields \in RowInputs("Artist") : InsertCall("Artist", fields)

Track_delete == \E key \in IdDom("Track") : DeleteCall("Track", key)
Album_delete == \E key \in IdDom("Album") : DeleteCall("Album", key)
Artist_delete == \E key \in IdDom("Artist") : DeleteCall("Artist", key)

Track_fetch == \E key \in IdDom("Track") : FetchCall("Track", key)
Album_fetch == \E key \in IdDom("Album") : FetchCall("Album", key)
Artist_fetch == \E key \in IdDom("Artist") : FetchCall("Artist", key)

Track_update == \E key \in IdDom("Track"), f \in Patches("Track") : UpdateCall("Track", key, f)
Album_update == \E key \in IdDom("Album"), f \in Patches("Album") : UpdateCall("Album", key, f)
Artist_update == \E key \in IdDom("Artist"), f \in Patches("Artist") : UpdateCall("Artist", key, f)

TrackId_set_album ==
    \E key \in IdDom("Track"), v \in IdDom("Album") : SetFkCall("Track", key, "album", v)
TrackId_set_artist ==
    \E key \in IdDom("Track"), v \in IdDom("Artist") : SetFkCall("Track", key, "artist", v)
TrackId_set_name ==
    \E key \in IdDom("Track"), v \in Names : SetAttrCall("Track", key, "name", v)
AlbumId_set_album_artist ==
    \E key \in IdDom("Album"), v \in {None} \cup IdDom("Artist") :
        SetNullFkCall("Album", key, "album_artist", v)
AlbumId_set_name ==
    \E key \in IdDom("Album"), v \in Names : SetAttrCall("Album", key, "name", v)
AlbumId_set_year ==
    \E key \in IdDom("Album"), v \in Years : SetAttrCall("Album", key, "year", v)
ArtistId_set_name ==
    \E key \in IdDom("Artist"), v \in Names : SetAttrCall("Artist", key, "name", v)

\* DbStore4::next
DbStore4_next ==
    /\ ~panicked
    /\ timestamp < MaxTime
    /\ timestamp' = timestamp + 1
    /\ last' = [op |-> "next", res |-> "Ok"]
    /\ UNCHANGED <<changes, Album_next_id, Track_next_id, Artist_next_id,
                   clustered_Track, pk_Track, pk_Album, pk_Artist,
                   fk_Track_album, fk_Track_artist, fk_Album_album_artist,
                   panicked, limit, strict, issued>>
    /\ UNCHANGED tableVars

\* ====================================================================
\* Table<T> (src/table.rs)
\* ====================================================================

\* the row data stored in the table under test
TData == {1, 2}

\* Table::new
Table_new == [data |-> EmptyMap, next_id |-> 0]

\* impl PartialEq for Row: rows are equal when their revisions are
Row_eq(a, b) == a.revision = b.revision

\* Table::insert
Table_insert(t, data) ==
    LET id == t.next_id
    IN [t |-> [t EXCEPT !.next_id = @ + 1,
                        !.data = MapPut(@, id, [data |-> data, revision |-> 0])],
        id |-> id]

\* Table::remove
Table_remove(t, id) == [t EXCEPT !.data = MapDel(@, id)]

\* Table::get
Table_contains(t, id) == id \in DOMAIN t.data

\* Table::get_mut, and the write of v through the reference it returns
Table_get_mut(t, id, v) ==
    IF id \in DOMAIN t.data
    THEN [t EXCEPT !.data[id] = [data |-> v, revision |-> @.revision + 1]]
    ELSE t

\* Table::clear that also starts the identifiers again
Table_clear_reset(t) == Table_new

\* Table::clear
Table_clear(t) == [t EXCEPT !.data = EmptyMap]

\* OrdMap::diff(old, new): one item per key that is in one map only or whose
\* values differ by PartialEq, in ascending key order
RECURSIVE DiffItems(_, _, _)
DiffItems(old, new, keys) ==
    IF keys = <<>> THEN <<>>
    ELSE LET k == Head(keys)
             item ==
                IF k \notin DOMAIN old
                THEN <<[item |-> "Add", k |-> k, old |-> new[k], new |-> new[k]]>>
                ELSE IF k \notin DOMAIN new
                THEN <<[item |-> "Remove", k |-> k, old |-> old[k], new |-> old[k]]>>
                ELSE IF ~Row_eq(old[k], new[k])
                THEN <<[item |-> "Update", k |-> k, old |-> old[k], new |-> new[k]]>>
                ELSE <<>>
         IN item \o DiffItems(old, new, Tail(keys))

OrdMap_diff(old, new) == DiffItems(old, new, SortedSeq(DOMAIN old \cup DOMAIN new))

\* the match of Table::delta: DiffItem to Delta, with the row data
DeltaOf(it) ==
    [kind |-> CASE it.item = "Add" -> "Insert"
                [] it.item = "Update" -> "Update"
                [] it.item = "Remove" -> "Remove",
     id |-> it.k, old |-> it.old.data, new |-> it.new.data]

\* Table::delta with the two maps exchanged: self.data.diff(&prev.data)
Table_delta_swapped(self, prev) ==
    LET items == OrdMap_diff(self.data, prev.data)
    IN [i \in DOMAIN items |-> DeltaOf(items[i])]

\* Table::delta: prev.data.diff(&self.data)
Table_delta(self, prev) ==
    LET items == OrdMap_diff(prev.data, self.data)
    IN [i \in DOMAIN items |-> DeltaOf(items[i])]

\* a clone that shares the table with the original
Table_clone_alias(ts) == [tables |-> ts, handle |-> "self"]

\* derive(Clone) for Table: the clone is a table of its own
Table_clone(ts) == [tables |-> [ts EXCEPT !["copy"] = ts["self"]], handle |-> "copy"]

\* ---------------------------------------------------- calls on the table
TableIds == 0..(MaxTableId - 1)

TableFrame ==
    UNCHANGED <<timestamp, changes, Album_next_id, Track_next_id, Artist_next_id,
                clustered_Track, pk_Track, pk_Album, pk_Artist,
                fk_Track_album, fk_Track_artist, fk_Album_album_artist,
                panicked, limit, strict, mode, musicdb, musicdb_prev, circuit, gen, range_scan, rel_vec>>

Table_insert_call ==
    /\ mode = "table"
    /\ tables["self"].next_id < MaxTableId
    /\ \E data \in TData :
          LET out == Table_insert(tables["self"], data)
          IN /\ tables' = [tables EXCEPT !["self"] = out.t]
             /\ issued' = [issued EXCEPT !["Table"] = Append(@, out.id)]
    /\ last' = [op |-> "Table::insert", res |-> "Ok"]
    /\ UNCHANGED snapshot
    /\ TableFrame

Table_remove_call ==
    /\ mode = "table"
    /\ \E id \in TableIds :
          /\ tables' = [tables EXCEPT !["self"] = Table_remove(@, id)]
          /\ last' = [op |-> "Table::remove",
                      res |-> IF Table_contains(tables["self"], id) THEN "Some" ELSE "None"]
    /\ UNCHANGED <<snapshot, issued>>
    /\ TableFrame

Table_get_mut_call ==
    /\ mode = "table"
    /\ \E id \in TableIds, v \in TData :
          /\ Table_contains(tables["self"], id) =>
                tables["self"].data[id].revision < MaxRevision
          /\ tables' = [tables EXCEPT !["self"] = Table_get_mut(@, id, v)]
          /\ last' = [op |-> "Table::get_mut",
                      res |-> IF Table_contains(tables["self"], id) THEN "Some" ELSE "None"]
    /\ UNCHANGED <<snapshot, issued>>
    /\ TableFrame

Table_clear_call ==
    /\ mode = "table"
    /\ tables' = [tables EXCEPT !["self"] = Table_clear(@)]
    /\ last' = [op |-> "Table::clear", res |-> "Ok"]
    /\ UNCHANGED <<snapshot, issued>>
    /\ TableFrame

\* the snapshot: let prev = table.clone()
Table_clone_call ==
    /\ mode = "table"
    /\ snapshot = "none"
    /\ LET out == Table_clone(tables)
       IN tables' = out.tables /\ snapshot' = out.handle
    /\ last' = [op |-> "Table::clone", res |-> "Ok"]
    /\ UNCHANGED issued
    /\ TableFrame

\* ====================================================================
\* A generated store (macros/src/store.rs) over two tables, for the schema
\*     Album(name: String, rel tracks: Track*.album);
\*     Track(name: String, rel album: Album.tracks);
\* and the join of db.rs on Album.tracks
\* ====================================================================

\* RelOps for Vec<T>
Vec_contains(v, index) == \E i \in DOMAIN v : v[i] = index

\* insert pushing without looking for the element
Vec_push(v, index) == Append(v, index)

Vec_insert(v, index) == IF Vec_contains(v, index) THEN v ELSE Append(v, index)

\* position, then swap_remove: the last element takes the place of the removed one
Vec_remove(v, index) ==
    IF ~Vec_contains(v, index) THEN v
    ELSE LET pos == CHOOSE i \in DOMAIN v : v[i] = index /\ \A j \in 1..(i - 1) : v[j] # index
             w == [v EXCEPT ![pos] = v[Len(v)]]
         IN SubSeq(w, 1, Len(v) - 1)

MusicIds == 0..(MaxMusicId - 1)

\* &mut self[d].tracks: IndexMut (get_mut: the revision moves), then the new list
WriteTracks(db, d, tracks) ==
    [db EXCEPT !.Album = Table_get_mut(@, d, [@.data[d].data EXCEPT !.tracks = tracks])]

\* AlbumRow::insert: no check and no upkeep is generated for a relation to many
\* whose inverse is required
AlbumRow_insert(db, data) ==
    LET out == Table_insert(db.Album, data)
    IN [db |-> [db EXCEPT !.Album = out.t], res |-> "Ok", id |-> out.id]

\* TrackRow::insert: check_insert reads self[album], Table::insert, upkeep_insert
TrackRow_insert(db, data) ==
    IF ~Table_contains(db.Album, data.album) THEN [db |-> db, res |-> "panic", id |-> 0]
    ELSE LET out == Table_insert(db.Track, data)
             db1 == [db EXCEPT !.Track = out.t]
             db2 == WriteTracks(db1, data.album,
                                Vec_insert(db1.Album.data[data.album].data.tracks, out.id))
         IN [db |-> db2, res |-> "Ok", id |-> out.id]

\* Album::remove: check_remove is empty, remove_unchecked expects the row
Album_remove(db, s) ==
    IF ~Table_contains(db.Album, s) THEN [db |-> db, res |-> "panic"]
    ELSE [db |-> [db EXCEPT !.Album = Table_remove(@, s)], res |-> "Ok"]

\* Track::remove: remove_unchecked, then upkeep_remove on the album's tracks
Track_remove(db, s) ==
    IF ~Table_contains(db.Track, s) THEN [db |-> db, res |-> "panic"]
    ELSE LET data == db.Track.data[s].data
             db1 == [db EXCEPT !.Track = Table_remove(@, s)]
             d == data.album
         IN IF ~Table_contains(db1.Album, d) THEN [db |-> db1, res |-> "panic"]
            ELSE [db |-> WriteTracks(db1, d, Vec_remove(db1.Album.data[d].data.tracks, s)),
                  res |-> "Ok"]

\* the attribute setter: db.store_mut().Entity[self].name = value
Entity_set_name(db, e, s, value) ==
    IF ~Table_contains(db[e], s) THEN [db |-> db, res |-> "panic"]
    ELSE [db |-> [db EXCEPT ![e] = Table_get_mut(@, s, [@.data[s].data EXCEPT !.name = value])],
          res |-> "Ok"]

\* set_track_album (generate_add_rel_method, a required relation to many)
set_track_album(db, s, d) ==
    IF ~Table_contains(db.Album, d) \/ ~Table_contains(db.Track, s)
    THEN [db |-> db, res |-> "panic"]
    ELSE LET d0 == db.Track.data[s].data.album
         IN IF ~Table_contains(db.Album, d0) THEN [db |-> db, res |-> "panic"]
            ELSE LET db1 == WriteTracks(db, d0, Vec_remove(db.Album.data[d0].data.tracks, s))
                     db2 == [db1 EXCEPT !.Track =
                                Table_get_mut(@, s, [@.data[s].data EXCEPT !.album = d])]
                     db3 == WriteTracks(db2, d, Vec_insert(db2.Album.data[d].data.tracks, s))
                 IN [db |-> db3, res |-> "Ok"]

\* Table::iter: (id, row) in ascending order of id
Table_iter(t) ==
    LET keys == SortedSeq(DOMAIN t.data)
    IN [i \in DOMAIN keys |-> [id |-> keys[i], row |-> t.data[keys[i]].data]]

\* Rel::contains for the inverse relation Track.album: targets(src).any(|t| t == dst)
Inverse_contains(src, dst) == src.album = dst

RECURSIVE Flatten(_)
Flatten(ss) == IF ss = <<>> THEN <<>> ELSE Head(ss) \o Flatten(Tail(ss))

\* Join::iter for join(Album::query_all(), Album.tracks): for every album of
\* db, its targets with their rows
Join_iter(db) ==
    LET left == Table_iter(db.Album)
    IN Flatten([i \in DOMAIN left |->
           [j \in DOMAIN left[i].row.tracks |->
               [left |-> left[i],
                id |-> left[i].row.tracks[j],
                row |-> db.Track.data[left[i].row.tracks[j]].data]]])

\* the filter_map of Join::delta with the tests of the old and the new row exchanged
Join_filter_exchanged(item, d) ==
    IF d.kind = "Insert"
    THEN IF Inverse_contains(d.new, item.id)
         THEN <<[kind |-> "Insert", left |-> item, id |-> d.id, old |-> d.new, new |-> d.new]>>
         ELSE <<>>
    ELSE IF d.kind = "Remove"
    THEN IF Inverse_contains(d.old, item.id)
         THEN <<[kind |-> "Remove", left |-> item, id |-> d.id, old |-> d.old, new |-> d.old]>>
         ELSE <<>>
    ELSE LET in_old == Inverse_contains(d.new, item.id)
             in_new == Inverse_contains(d.old, item.id)
         IN IF in_old /\ in_new
            THEN <<[kind |-> "Update", left |-> item, id |-> d.id, old |-> d.old, new |-> d.new]>>
            ELSE IF in_old
            THEN <<[kind |-> "Remove", left |-> item, id |-> d.id, old |-> d.old, new |-> d.old]>>
            ELSE IF in_new
            THEN <<[kind |-> "Insert", left |-> item, id |-> d.id, old |-> d.new, new |-> d.new]>>
            ELSE <<>>

\* the filter_map of Join::delta: what one delta of the destination table gives
\* for one item of the left query
Join_filter(item, d) ==
    IF d.kind = "Insert"
    THEN IF Inverse_contains(d.new, item.id)
         THEN <<[kind |-> "Insert", left |-> item, id |-> d.id, old |-> d.new, new |-> d.new]>>
         ELSE <<>>
    ELSE IF d.kind = "Remove"
    THEN IF Inverse_contains(d.old, item.id)
         THEN <<[kind |-> "Remove", left |-> item, id |-> d.id, old |-> d.old, new |-> d.old]>>
         ELSE <<>>
    ELSE LET in_old == Inverse_contains(d.old, item.id)
             in_new == Inverse_contains(d.new, item.id)
         IN IF in_old /\ in_new
            THEN <<[kind |-> "Update", left |-> item, id |-> d.id, old |-> d.old, new |-> d.new]>>
            ELSE IF in_old
            THEN <<[kind |-> "Remove", left |-> item, id |-> d.id, old |-> d.old, new |-> d.old]>>
            ELSE IF in_new
            THEN <<[kind |-> "Insert", left |-> item, id |-> d.id, old |-> d.new, new |-> d.new]>>
            ELSE <<>>

\* Join::delta: for every item of the left query on db, the deltas of the
\* destination table between prev and db, filtered
Join_delta(db, prev) ==
    LET left == Table_iter(db.Album)
        ds == Table_delta(db.Track, prev.Track)
    IN Flatten([i \in DOMAIN left |->
           Flatten([j \in DOMAIN ds |-> Join_filter(left[i], ds[j])])])

\* ------------------------------------------- calls on the generated store
MusicFrame ==
    UNCHANGED <<timestamp, changes, Album_next_id, Track_next_id, Artist_next_id,
                clustered_Track, pk_Track, pk_Album, pk_Artist,
                fk_Track_album, fk_Track_artist, fk_Album_album_artist,
                limit, strict, mode, tables, snapshot, issued, circuit, gen, range_scan, rel_vec>>

\* the callers stop before a row has been written MaxMusicRevision times
MusicCanCall ==
    /\ mode = "music"
    /\ ~panicked
    /\ \A e \in {"Album", "Track"} : \A k \in DOMAIN musicdb[e].data :
          musicdb[e].data[k].revision < MaxMusicRevision

MusicReturn(op, out) ==
    /\ musicdb' = out.db
    /\ panicked' = (out.res = "panic")
    /\ last' = [op |-> op, res |-> out.res]
    /\ UNCHANGED musicdb_prev
    /\ MusicFrame

AlbumRow_insert_call ==
    /\ MusicCanCall
    /\ musicdb.Album.next_id < MaxMusicId
    /\ \E name \in NewNames :
          MusicReturn("AlbumRow::insert",
                      AlbumRow_insert(musicdb, [name |-> name, tracks |-> <<>>]))

TrackRow_insert_call ==
    /\ MusicCanCall
    /\ musicdb.Track.next_id < MaxMusicId
    /\ \E name \in NewNames, album \in MusicIds :
          MusicReturn("TrackRow::insert",
                      TrackRow_insert(musicdb, [name |-> name, album |-> album]))

Album_remove_call ==
    /\ MusicCanCall
    /\ \E s \in MusicIds : MusicReturn("Album::remove", Album_remove(musicdb, s))

Track_remove_call ==
    /\ MusicCanCall
    /\ \E s \in MusicIds : MusicReturn("Track::remove", Track_remove(musicdb, s))

Album_set_name_call ==
    /\ MusicCanCall
    /\ \E s \in MusicIds, v \in Names :
          MusicReturn("Album::set_name", Entity_set_name(musicdb, "Album", s, v))

Track_set_name_call ==
    /\ MusicCanCall
    /\ \E s \in MusicIds, v \in Names :
          MusicReturn("Track::set_name", Entity_set_name(musicdb, "Track", s, v))

Track_set_album_call ==
    /\ MusicCanCall
    /\ \E s \in MusicIds, d \in MusicIds :
          MusicReturn("Track::set_album", set_track_album(musicdb, s, d))

\* the snapshot of the store: a clone of each table
MusicDb_snapshot ==
    /\ mode = "music"
    /\ ~panicked
    /\ ~musicdb_prev.taken
    /\ musicdb_prev' = [taken |-> TRUE, Album |-> musicdb.Album, Track |-> musicdb.Track]
    /\ last' = [op |-> "snapshot", res |-> "Ok"]
    /\ UNCHANGED <<musicdb, panicked>>
    /\ MusicFrame

\* ====================================================================
\* The operators of circuit.rs: Integrate and FKJoinIndexed, driven as in
\* test_join on albums and tracks (track.album is the foreign key)
\* ====================================================================

\* the keys the driver hands out (AlbumId, TrackId: Idx from 1)
CircuitIds == IdxMIN..MaxCircuitId

\* "-1 when an element is removed, +1 when it is added"
Multiplicities == {-1, 1}

ZMap_new == EmptyMap

\* Integrate::eval with the multiplicity of the delta stored over the old one
Integrate_eval_overwrite(state, input) ==
    MapPut(state, input.key, [value |-> IF input.key \in DOMAIN state
                                        THEN state[input.key].value ELSE input.value,
                              multiplicity |-> input.multiplicity])

\* Integrate::eval: entry(key).and_modify(multiplicity += m).or_insert(ZVal);
\* the state after the delta (output.push(self.state.clone()) hands out this)
Integrate_eval(state, input) ==
    IF input.key \in DOMAIN state
    THEN [state EXCEPT ![input.key].multiplicity = @ + input.multiplicity]
    ELSE MapPut(state, input.key, [value |-> input.value, multiplicity |-> input.multiplicity])

\* for v in join_output { join_integrate.eval(&v, ..) }
RECURSIVE Integrate_all(_, _)
Integrate_all(state, inputs) ==
    IF inputs = <<>> THEN state
    ELSE Integrate_all(Integrate_eval(state, Head(inputs)), Tail(inputs))

\* the closure given to FKJoinIndexed::new: |_, track| track.album
fk_fn(kb, vb) == vb.album

\* FKJoinIndexed::eval on (ZMap of A, Delta of B) with the sum of the
\* multiplicities in place of their product
FKJoin_eval_state_delta_sum(input1, input2) ==
    LET kb == input2.key
        ka == fk_fn(kb, input2.value)
    IN IF ka \in DOMAIN input1
       THEN <<[key |-> <<ka, kb>>,
               value |-> <<input1[ka].value, input2.value>>,
               multiplicity |-> input1[ka].multiplicity + input2.multiplicity]>>
       ELSE <<>>

\* FKJoinIndexed::eval on (ZMap of A, Delta of B)
FKJoin_eval_state_delta(input1, input2) ==
    LET kb == input2.key
        ka == fk_fn(kb, input2.value)
    IN IF ka \in DOMAIN input1
       THEN <<[key |-> <<ka, kb>>,
               value |-> <<input1[ka].value, input2.value>>,
               multiplicity |-> input1[ka].multiplicity * input2.multiplicity]>>
       ELSE <<>>

\* FKJoinIndexed::eval on (Delta of A, ZMap of B) with the multiplicity of
\* the A delta alone
FKJoin_eval_delta_state_unweighted(input1, input2) ==
    LET ka == input1.key
        kbs == RangeOf(DOMAIN input2, ka)
    IN [i \in DOMAIN kbs |->
           [key |-> <<ka, kbs[i]>>,
            value |-> <<input1.value, input2[<<ka, kbs[i]>>].value>>,
            multiplicity |-> input1.multiplicity]]

\* FKJoinIndexed::eval on (Delta of A, ZMap of B indexed by (ka, kb)): the
\* entries of input2.range(range_helper(ka..=ka)), in key order
FKJoin_eval_delta_state(input1, input2) ==
    LET ka == input1.key
        kbs == RangeOf(DOMAIN input2, ka)
    IN [i \in DOMAIN kbs |->
           [key |-> <<ka, kbs[i]>>,
            value |-> <<input1.value, input2[<<ka, kbs[i]>>].value>>,
            multiplicity |-> input1.multiplicity * input2[<<ka, kbs[i]>>].multiplicity]]

\* the tracks indexed by (album, track): the track deltas integrated under
\* the key (fk_fn(kb, vb), kb)
Index_delta(input) ==
    [key |-> <<fk_fn(input.key, input.value), input.key>>,
     value |-> input.value,
     multiplicity |-> input.multiplicity]

\* the operators and vectors of test_join before the first delta
Circuit_new ==
    [album_table |-> ZMap_new, track_table |-> ZMap_new, track_index |-> ZMap_new,
     join_integrate |-> ZMap_new,
     album_map |-> <<>>, track_map |-> <<>>, join_output |-> <<>>,
     stream |-> <<>>, joined |-> <<>>]

CircuitFrame ==
    UNCHANGED <<timestamp, changes, Album_next_id, Track_next_id, Artist_next_id,
                clustered_Track, pk_Track, pk_Album, pk_Artist,
                fk_Track_album, fk_Track_artist, fk_Album_album_artist,
                panicked, limit, strict, mode, tables, snapshot, issued,
                musicdb, musicdb_prev, gen, range_scan, rel_vec>>

\* one album delta: album_map.clear(); album_table.eval(&album, &mut album_map);
\* the delta joined with the indexed tracks, the outputs integrated
Circuit_album_delta ==
    /\ mode = "circuit"
    /\ Len(circuit.stream) < MaxDeltas
    /\ \E id \in CircuitIds, m \in Multiplicities :
          LET album == [key |-> id, value |-> [id |-> id, name |-> 1], multiplicity |-> m]
              state == Integrate_eval(circuit.album_table, album)
              join_output == FKJoin_eval_delta_state(album, circuit.track_index)
          IN circuit' = [circuit EXCEPT
                 !.album_table = state,
                 !.album_map = <<state>>,
                 !.join_output = join_output,
                 !.join_integrate = Integrate_all(@, join_output),
                 !.stream = Append(@, [table |-> "album", key |-> id, album |-> None,
                                       multiplicity |-> m]),
                 !.joined = @ \o join_output]
    /\ last' = [op |-> "album delta", res |-> "Ok"]
    /\ CircuitFrame

\* one track delta: track_map.clear(); track_table.eval(&track, &mut track_map);
\* join.eval(&album_map[0], &track, &mut join_output); the outputs integrated
Circuit_track_delta ==
    /\ mode = "circuit"
    /\ Len(circuit.stream) < MaxDeltas
    /\ circuit.album_map # <<>>
    /\ \E id \in CircuitIds, a \in CircuitIds, m \in Multiplicities :
          LET track == [key |-> id, value |-> [id |-> id, name |-> 1, album |-> a],
                        multiplicity |-> m]
              state == Integrate_eval(circuit.track_table, track)
              join_output == FKJoin_eval_state_delta(circuit.album_map[1], track)
          IN circuit' = [circuit EXCEPT
                 !.track_table = state,
                 !.track_map = <<state>>,
                 !.track_index = Integrate_eval(@, Index_delta(track)),
                 !.join_output = join_output,
                 !.join_integrate = Integrate_all(@, join_output),
                 !.stream = Append(@, [table |-> "track", key |-> id, album |-> a,
                                       multiplicity |-> m]),
                 !.joined = @ \o join_output]
    /\ last' = [op |-> "track delta", res |-> "Ok"]
    /\ CircuitFrame

\* ====================================================================
\* generate_store (macros/src/store.rs) on a schema of two entities S and D
\* with one relation each, declared as inverses of each other:
\*     S(rel rd: D<m>.rs);  D(rel rs: S<m'>.rd);
\* and the store it generates.  schema[e] is the relation declared in e.
\* ====================================================================
Multiplicity == {"ZeroOrOne", "One", "Many"}

DeleteRule == {"Deny", "Nullify", "Cascade"}

GenEntities == <<"S", "D">>

\* the destination of the relation declared in e
Destination(e) == IF e = "S" THEN "D" ELSE "S"

\* Rel::parse: the multiplicity is read, delete_rule is None
Rel_parse(m) == [multiplicity |-> m, delete_rule |-> "None"]

\* the schemas the macro input can spell
ParsedSchemas ==
    {[S |-> Rel_parse(m1), D |-> Rel_parse(m2)] : m1 \in Multiplicity, m2 \in Multiplicity}

\* every value of the two Rel structs (delete_rule: Option<DeleteRule>)
RelValues == [multiplicity : Multiplicity, delete_rule : {"None"} \cup DeleteRule]

AllSchemas == [S : RelValues, D : RelValues]

\* Album(rel tracks: Track*.album); Track(rel album: Album.tracks)
MusicSchema == [S |-> Rel_parse("Many"), D |-> Rel_parse("One")]

\* what generate_entity_store_impls pushes for a relation; a relation of the
\* `continue` arm pushes nothing
NoImpl == [error |-> "", check_insert |-> "none", upkeep_insert |-> "none",
           check_remove |-> "none", upkeep_remove |-> "none", delete_rule |-> "none"]

\* rel.delete_rule.unwrap_or(match inv_rel.multiplicity { .. })
default_delete_rule(inv_multiplicity) ==
    CASE inv_multiplicity = "ZeroOrOne" -> "Nullify"
      [] inv_multiplicity = "One" -> "Deny"
      [] inv_multiplicity = "Many" -> "Nullify"

\* the match on (rel.multiplicity, delete_rule, inv_rel.multiplicity)
remove_arms(impl, m, rule, inv_m) ==
    IF rule = "Deny"
    THEN [impl EXCEPT !.check_remove = IF m = "One" THEN "deny" ELSE "deny unless empty"]
    ELSE IF rule = "Nullify"
    THEN IF inv_m = "One" THEN [impl EXCEPT !.check_remove = "too few targets"]
         ELSE [impl EXCEPT !.upkeep_remove = IF m = "One" THEN "nullify data.rd"
                                                ELSE "nullify self[s].rd"]
    ELSE [impl EXCEPT !.check_remove = "cascade", !.upkeep_remove = "cascade"]

\* the validation with only (ZeroOrOne, One) refused in the first match
generate_entity_store_impls_one_one(rel, inv_rel) ==
    LET m == rel.multiplicity
        inv_m == inv_rel.multiplicity
    IN IF m \in {"ZeroOrOne", "One"} /\ inv_m \in {"ZeroOrOne", "Many"}
       THEN LET rule == IF rel.delete_rule = "None" THEN default_delete_rule(inv_m)
                        ELSE rel.delete_rule
                kind == IF m = "One" THEN "required" ELSE "optional"
            IN IF rule = "Nullify" /\ inv_m = "One"
               THEN [NoImpl EXCEPT !.error = "can't nullify a required relation"]
               ELSE remove_arms([NoImpl EXCEPT !.check_insert = kind, !.upkeep_insert = kind,
                                               !.delete_rule = rule], m, rule, inv_m)
       ELSE IF m = "ZeroOrOne" /\ inv_m = "One"
       THEN [NoImpl EXCEPT !.error =
                "can't have a one-to-one relation with a required destination"]
       ELSE NoImpl

\* the validation with only (One, One) refused in the first match
generate_entity_store_impls_required_only(rel, inv_rel) ==
    LET m == rel.multiplicity
        inv_m == inv_rel.multiplicity
    IN IF m \in {"ZeroOrOne", "One"} /\ inv_m \in {"ZeroOrOne", "Many"}
       THEN LET rule == IF rel.delete_rule = "None" THEN default_delete_rule(inv_m)
                        ELSE rel.delete_rule
                kind == IF m = "One" THEN "required" ELSE "optional"
            IN IF rule = "Nullify" /\ inv_m = "One"
               THEN [NoImpl EXCEPT !.error = "can't nullify a required relation"]
               ELSE remove_arms([NoImpl EXCEPT !.check_insert = kind, !.upkeep_insert = kind,
                                               !.delete_rule = rule], m, rule, inv_m)
       ELSE IF m = "One" /\ inv_m = "One"
       THEN [NoImpl EXCEPT !.error =
                "can't have a one-to-one relation with a required destination"]
       ELSE NoImpl

\* generate_entity_store_impls for one relation of the entity: the first
\* match on (rel.multiplicity, inv_rel.multiplicity), the delete rule, the
\* check "can't nullify", the second match
generate_entity_store_impls(rel, inv_rel) ==
    LET m == rel.multiplicity
        inv_m == inv_rel.multiplicity
    IN IF m \in {"ZeroOrOne", "One"} /\ inv_m \in {"ZeroOrOne", "Many"}
       THEN LET rule == IF rel.delete_rule = "None" THEN default_delete_rule(inv_m)
                        ELSE rel.delete_rule
                kind == IF m = "One" THEN "required" ELSE "optional"
            IN IF rule = "Nullify" /\ inv_m = "One"
               THEN [NoImpl EXCEPT !.error = "can't nullify a required relation"]
               ELSE remove_arms([NoImpl EXCEPT !.check_insert = kind, !.upkeep_insert = kind,
                                               !.delete_rule = rule], m, rule, inv_m)
       ELSE IF m \in {"ZeroOrOne", "One"} /\ inv_m = "One"
       THEN [NoImpl EXCEPT !.error =
                "can't have a one-to-one relation with a required destination"]
       ELSE NoImpl

\* generate_add_rel_method: the statements of the setter, "none" where the
\* method is left without statements
generate_add_rel_method(rel, inv_rel) ==
    LET m == rel.multiplicity
        inv_m == inv_rel.multiplicity
    IN IF m = "ZeroOrOne" /\ inv_m \in {"ZeroOrOne", "Many"} THEN "optional"
       ELSE IF m = "One" /\ inv_m \in {"ZeroOrOne", "Many"} THEN "required"
       ELSE "none"

NoCode == [impls |-> [e \in {"S", "D"} |-> NoImpl], setters |-> [e \in {"S", "D"} |-> "none"]]

\* generate_store: for each entity generate_entity_store_impls(..)?, then
\* generate_add_rel_method(..)? for its relation; the first error is returned
generate_store(schema) ==
    LET impls == [e \in {"S", "D"} |->
                     generate_entity_store_impls(schema[e], schema[Destination(e)])]
        setters == [e \in {"S", "D"} |->
                       generate_add_rel_method(schema[e], schema[Destination(e)])]
    IN IF impls["S"].error # "" THEN [result |-> impls["S"].error, code |-> NoCode]
       ELSE IF impls["D"].error # "" THEN [result |-> impls["D"].error, code |-> NoCode]
       ELSE [result |-> "Ok", code |-> [impls |-> impls, setters |-> setters]]

\* the generated store struct after new(): one empty map per entity
GenStore_new == [e \in {"S", "D"} |-> [data |-> EmptyMap, next_id |-> 0]]

Gen_new(schema) ==
    [schema |-> schema, result |-> "none", code |-> NoCode, store |-> GenStore_new]

\* ------------------------------------------------ the generated store
\* A row holds its relation: no target or one for ZeroOrOne (Option<T>), one
\* for One (T), a list for Many (Vec<T>).
GenIds == 0..(MaxGenId - 1)

\* the values a caller can give to a relation field of multiplicity m
RelInputs(m) ==
    CASE m = "ZeroOrOne" -> {<<>>} \cup {<<d>> : d \in GenIds}
      [] m = "One" -> {<<d>> : d \in GenIds}
      [] m = "Many" -> {<<>>} \cup {<<d>> : d \in GenIds}
                       \cup {<<p[1], p[2]>> : p \in {q \in GenIds \X GenIds : q[1] # q[2]}}

\* RelOps for Option<T> and Vec<T>, by the multiplicity of the field
RelOps_is_full(m, v) == m = "ZeroOrOne" /\ v # <<>>

RelOps_is_empty(m, v) == v = <<>>

RelOps_insert(m, v, index) == IF m = "ZeroOrOne" THEN <<index>> ELSE Vec_insert(v, index)

\* Option::remove asserts that the target held is the one removed
RelOps_remove_panics(m, v, index) == m = "ZeroOrOne" /\ v # <<>> /\ v[1] # index

RelOps_remove(m, v, index) == IF m = "ZeroOrOne" THEN <<>> ELSE Vec_remove(v, index)

\* self[idx] on the store: the row, or a panic
HasRow(store, e, idx) == idx \in DOMAIN store[e].data

\* self.Entity.insert(data): a new key, never one handed out before
SlotMap_insert(store, e, data) ==
    [store EXCEPT ![e].data = MapPut(@, store[e].next_id, data),
                  ![e].next_id = @ + 1]

\* #(#checks_insert)* of the generated insert
check_insert(g, e, data) ==
    LET kind == g.code.impls[e].check_insert
        de == Destination(e)
    IN IF kind = "none" \/ data = <<>> THEN "Ok"
       ELSE IF ~HasRow(g.store, de, data[1]) THEN "panic"
       ELSE IF RelOps_is_full(g.schema[de].multiplicity, g.store[de].data[data[1]])
       THEN "RelationshipTooManyTargets"
       ELSE "Ok"

\* EntityStore::insert: the checks, the insert, the upkeeps
EntityStore_insert(g, e, data) ==
    LET chk == check_insert(g, e, data)
        de == Destination(e)
        s == g.store[e].next_id
        store1 == SlotMap_insert(g.store, e, data)
    IN IF chk # "Ok" THEN [store |-> g.store, res |-> chk]
       ELSE IF g.code.impls[e].upkeep_insert = "none" \/ data = <<>>
       THEN [store |-> store1, res |-> "Ok"]
       ELSE [store |-> [store1 EXCEPT ![de].data[data[1]] =
                           RelOps_insert(g.schema[de].multiplicity, @, s)],
             res |-> "Ok"]

\* EntityStore::check_remove: #(#checks_remove)*
EntityStore_check_remove(g, e, s) ==
    LET kind == g.code.impls[e].check_remove
    IN IF kind = "deny" THEN "RelationshipDeniedDelete"
       ELSE IF kind = "too few targets" THEN "RelationshipTooFewTargets"
       ELSE IF kind = "deny unless empty"
       THEN IF ~HasRow(g.store, e, s) THEN "panic"
            ELSE IF ~RelOps_is_empty(g.schema[e].multiplicity, g.store[e].data[s])
            THEN "RelationshipDeniedDelete"
            ELSE "Ok"
       ELSE "Ok"

\* EntityStore::remove: check_remove(s)?, remove_unchecked(s), the upkeeps.
\* "nullify self[s].rd" reads self[s] after the row has been removed.
EntityStore_remove(g, e, s) ==
    LET chk == EntityStore_check_remove(g, e, s)
        de == Destination(e)
        kind == g.code.impls[e].upkeep_remove
    IN IF chk # "Ok" THEN [store |-> g.store, res |-> chk]
       ELSE IF ~HasRow(g.store, e, s) THEN [store |-> g.store, res |-> "panic"]
       ELSE LET data == g.store[e].data[s]
                store1 == [g.store EXCEPT ![e].data = MapDel(@, s)]
            IN IF kind = "none" THEN [store |-> store1, res |-> "Ok"]
               ELSE IF kind = "nullify self[s].rd" THEN [store |-> store1, res |-> "panic"]
               ELSE IF \/ ~HasRow(store1, de, data[1])
                       \/ RelOps_remove_panics(g.schema[de].multiplicity,
                                               store1[de].data[data[1]], s)
               THEN [store |-> store1, res |-> "panic"]
               ELSE [store |-> [store1 EXCEPT ![de].data[data[1]] =
                                   RelOps_remove(g.schema[de].multiplicity, @, s)],
                     res |-> "Ok"]

\* the generated set_<src>_<rel>(s, d); d is Option<D> for an optional relation
set_rel(g, e, s, d) ==
    LET de == Destination(e)
        inv_m == g.schema[de].multiplicity
    IN IF d # <<>> /\ ~HasRow(g.store, de, d[1]) THEN [store |-> g.store, res |-> "panic"]
       ELSE IF d # <<>> /\ RelOps_is_full(inv_m, g.store[de].data[d[1]])
       THEN [store |-> g.store, res |-> "RelationshipTooManyTargets"]
       ELSE IF ~HasRow(g.store, e, s) THEN [store |-> g.store, res |-> "panic"]
       ELSE LET d0 == g.store[e].data[s]
            IN IF d0 # <<>> /\ (\/ ~HasRow(g.store, de, d0[1])
                                \/ RelOps_remove_panics(inv_m, g.store[de].data[d0[1]], s))
               THEN [store |-> g.store, res |-> "panic"]
               ELSE LET store1 == IF d0 = <<>> THEN g.store
                                  ELSE [g.store EXCEPT ![de].data[d0[1]] =
                                           RelOps_remove(inv_m, @, s)]
                        store2 == [store1 EXCEPT ![e].data[s] = d]
                        store3 == IF d = <<>> THEN store2
                                  ELSE [store2 EXCEPT ![de].data[d[1]] =
                                           RelOps_insert(inv_m, @, s)]
                    IN [store |-> store3, res |-> "Ok"]

GenFrame ==
    UNCHANGED <<timestamp, changes, Album_next_id, Track_next_id, Artist_next_id,
                clustered_Track, pk_Track, pk_Album, pk_Artist,
                fk_Track_album, fk_Track_artist, fk_Album_album_artist,
                limit, strict, mode, tables, snapshot, issued,
                musicdb, musicdb_prev, circuit, range_scan, rel_vec>>

\* the macro is expanded
Gen_generate ==
    /\ mode = "gen"
    /\ gen.result = "none"
    /\ LET out == generate_store(gen.schema)
       IN /\ gen' = [gen EXCEPT !.result = out.result, !.code = out.code]
          /\ last' = [op |-> "generate_store", res |-> IF out.result = "Ok" THEN "Ok" ELSE "Err"]
    /\ UNCHANGED panicked
    /\ GenFrame

GenReturn(op, out) ==
    /\ gen' = [gen EXCEPT !.store = out.store]
    /\ panicked' = (out.res = "panic")
    /\ last' = [op |-> op, res |-> out.res]
    /\ GenFrame

GenCanCall == mode = "gen" /\ gen.result = "Ok" /\ ~panicked

Gen_insert_call(e, data) ==
    /\ GenCanCall
    /\ gen.store[e].next_id < MaxGenId
    /\ GenReturn("insert", EntityStore_insert(gen, e, data))

Gen_remove_call(e, s) ==
    /\ GenCanCall
    /\ GenReturn("remove", EntityStore_remove(gen, e, s))

Gen_set_rel_call(e, s, d) ==
    /\ GenCanCall
    /\ gen.code.setters[e] # "none"
    /\ GenReturn("set_rel", set_rel(gen, e, s, d))

\* ====================================================================
\* range_helper over an ordered set of (destination, source) pairs
\* (BTreeMap<(A, B), ()>), and RelOps on a Vec<T>
\* ====================================================================
\* identifiers from MIN upwards, and MAX
ScanIds == (IdxMIN..MaxScanId) \cup {IdxMAX}

\* the keys of S in the order of (A, B): by A, then by B
RECURSIVE SortedPairs(_)
SortedPairs(S) ==
    IF S = {} THEN <<>>
    ELSE LET m == CHOOSE x \in S : \A y \in S : LexLeq(x, y)
         IN <<m>> \o SortedPairs(S \ {m})

\* index.range((Bound::Included(start), Bound::Included(end))): the keys
\* between the bounds, in key order
BTreeMap_range(index, b) ==
    SortedPairs({q \in index : LexLeq(b.start, q) /\ LexLeq(q, b.end)})

\* BTreeMap::new(), no scan made
Scan_new == [index |-> {}, a |-> None, out |-> <<>>]

\* Vec::new(), no call made
RelVec_new == [vec |-> <<>>, prev |-> <<>>, op |-> "none", index |-> None]

RelIds == 1..MaxRelId

PureFrame ==
    UNCHANGED <<timestamp, changes, Album_next_id, Track_next_id, Artist_next_id,
                clustered_Track, pk_Track, pk_Album, pk_Artist,
                fk_Track_album, fk_Track_artist, fk_Album_album_artist,
                panicked, limit, strict, mode, tables, snapshot, issued,
                musicdb, musicdb_prev, circuit, gen>>

\* index.insert((d, s), ()); a scan made before it is over
BTreeMap_insert_call ==
    /\ mode = "range"
    /\ \E d \in ScanIds, src \in ScanIds :
          range_scan' = [index |-> range_scan.index \cup {<<d, src>>}, a |-> None, out |-> <<>>]
    /\ last' = [op |-> "insert", res |-> "Ok"]
    /\ UNCHANGED rel_vec
    /\ PureFrame

\* index.range(range_helper(a..=a)) collected
BTreeMap_range_call ==
    /\ mode = "range"
    /\ \E a \in ScanIds :
          range_scan' = [range_scan EXCEPT
                            !.a = a,
                            !.out = BTreeMap_range(range_scan.index, range_helper(a))]
    /\ last' = [op |-> "range", res |-> "Ok"]
    /\ UNCHANGED rel_vec
    /\ PureFrame

\* RelOps::insert(&mut vec, index)
RelOps_insert_call ==
    /\ mode = "relops"
    /\ \E x \in RelIds :
          rel_vec' = [vec |-> RelOps_insert("Many", rel_vec.vec, x), prev |-> rel_vec.vec,
                      op |-> "insert", index |-> x]
    /\ last' = [op |-> "insert", res |-> "Ok"]
    /\ UNCHANGED range_scan
    /\ PureFrame

\* RelOps::remove(&mut vec, index)
RelOps_remove_call ==
    /\ mode = "relops"
    /\ \E x \in RelIds :
          rel_vec' = [vec |-> RelOps_remove("Many", rel_vec.vec, x), prev |-> rel_vec.vec,
                      op |-> "remove", index |-> x]
    /\ last' = [op |-> "remove", res |-> "Ok"]
    /\ UNCHANGED range_scan
    /\ PureFrame

\* the state outside DbStore4 after construction
FreshTables ==
    /\ issued = [r \in Entities \cup {"Table"} |-> <<>>]
    /\ tables = [h \in {"self", "copy"} |-> Table_new]
    /\ snapshot = "none"
    /\ musicdb = [Album |-> Table_new, Track |-> Table_new]
    /\ musicdb_prev = [taken |-> FALSE, Album |-> Table_new, Track |-> Table_new]
    /\ circuit = Circuit_new
    /\ range_scan = Scan_new
    /\ rel_vec = RelVec_new

\* the same, with the schema of the music store not yet generated
Fresh == FreshTables /\ gen = Gen_new(MusicSchema)

\* DbStore4::default()
Empty ==
    /\ timestamp = 0
    /\ changes = <<>>
    /\ Album_next_id = Default
    /\ Track_next_id = Default
    /\ Artist_next_id = Default
    /\ clustered_Track = EmptyMap
    /\ pk_Track = EmptyMap
    /\ pk_Album = EmptyMap
    /\ pk_Artist = EmptyMap
    /\ fk_Track_album = {}
    /\ fk_Track_artist = {}
    /\ fk_Album_album_artist = {}
    /\ panicked = FALSE
    /\ last = [op |-> "none", res |-> "none"]

Init == Empty /\ Fresh /\ mode = "store" /\ limit = MaxLog /\ strict = FALSE

Next ==
    \/ Track_insert \/ Album_insert \/ Artist_insert
    \/ Track_delete \/ Album_delete \/ Artist_delete
    \/ Track_fetch \/ Album_fetch \/ Artist_fetch
    \/ Track_update \/ Album_update \/ Artist_update
    \/ TrackId_set_album \/ TrackId_set_artist \/ TrackId_set_name
    \/ AlbumId_set_album_artist \/ AlbumId_set_name \/ AlbumId_set_year
    \/ ArtistId_set_name
    \/ DbStore4_next

Spec == Init /\ [][Next]_vars

\* the calls that shape rows and indices (insert, update, delete and the
\* foreign-key setters), none returning an error, with a longer log
InitDeep == Empty /\ Fresh /\ mode = "store" /\ limit = MaxLogDeep /\ strict = TRUE

NextDeep ==
    \/ Track_insert \/ Album_insert \/ Artist_insert
    \/ Track_delete \/ Album_delete \/ Artist_delete
    \/ Track_update \/ Album_update \/ Artist_update
    \/ TrackId_set_album \/ TrackId_set_artist \/ AlbumId_set_album_artist

SpecDeep == InitDeep /\ [][NextDeep]_vars

\* the callers of a Table<T>: insert, remove, get_mut, clear and one clone
InitTable == Empty /\ Fresh /\ mode = "table" /\ limit = MaxLog /\ strict = FALSE

NextTable ==
    \/ Table_insert_call
    \/ Table_remove_call
    \/ Table_get_mut_call
    \/ Table_clear_call
    \/ Table_clone_call

SpecTable == InitTable /\ [][NextTable]_vars

\* the callers of either store, for the identifiers insert hands out: the
\* inserts, deletes and updates of DbStore4, or the calls on a Table<T>
InitIds ==
    /\ Empty /\ Fresh
    /\ mode \in {"store", "table"}
    /\ limit = MaxLog /\ strict = FALSE

NextIds ==
    \/ Track_insert
    \/ Album_insert
    \/ Artist_insert
    \/ Track_delete
    \/ Album_delete
    \/ Artist_delete
    \/ Track_update
    \/ Album_update
    \/ Artist_update
    \/ Table_insert_call
    \/ Table_remove_call
    \/ Table_get_mut_call
    \/ Table_clear_call
    \/ Table_clone_call

SpecIds == InitIds /\ [][NextIds]_vars

\* the callers of the generated store
InitMusic == Empty /\ Fresh /\ mode = "music" /\ limit = MaxLog /\ strict = FALSE

NextMusic ==
    \/ AlbumRow_insert_call
    \/ TrackRow_insert_call
    \/ Album_remove_call
    \/ Track_remove_call
    \/ Album_set_name_call
    \/ Track_set_name_call
    \/ Track_set_album_call
    \/ MusicDb_snapshot

SpecMusic == InitMusic /\ [][NextMusic]_vars

\* the macro expanded on a schema it can parse, and the callers of the store
InitGen ==
    /\ Empty /\ FreshTables
    /\ gen \in {Gen_new(schema) : schema \in ParsedSchemas}
    /\ mode = "gen" /\ limit = MaxLog /\ strict = FALSE

NextGen ==
    \/ Gen_generate
    \/ \E e \in {"S", "D"} : \E data \in RelInputs(gen.schema[e].multiplicity) :
          Gen_insert_call(e, data)
    \/ \E e \in {"S", "D"}, s \in GenIds : Gen_remove_call(e, s)
    \/ \E e \in {"S", "D"}, s \in GenIds :
          \E d \in RelInputs(gen.schema[e].multiplicity) : Gen_set_rel_call(e, s, d)

SpecGen == InitGen /\ [][NextGen]_vars

\* generate_store on every value of the two Rel structs
InitGenRules ==
    /\ Empty /\ FreshTables
    /\ gen \in {Gen_new(schema) : schema \in AllSchemas}
    /\ mode = "gen" /\ limit = MaxLog /\ strict = FALSE

NextGenRules == Gen_generate

SpecGenRules == InitGenRules /\ [][NextGenRules]_vars

\* the driver of the circuit
InitCircuit == Empty /\ Fresh /\ mode = "circuit" /\ limit = MaxLog /\ strict = FALSE

NextCircuit ==
    \/ Circuit_album_delta
    \/ Circuit_track_delta

SpecCircuit == InitCircuit /\ [][NextCircuit]_vars

\* an ordered set of pairs filled by insert and scanned with range_helper
InitRange == Empty /\ Fresh /\ mode = "range" /\ limit = MaxLog /\ strict = FALSE

NextRange == BTreeMap_insert_call \/ BTreeMap_range_call

SpecRange == InitRange /\ [][NextRange]_vars

\* a Vec<T> relation field under RelOps::insert and RelOps::remove
InitRelOps == Empty /\ Fresh /\ mode = "relops" /\ limit = MaxLog /\ strict = FALSE

NextRelOps == RelOps_insert_call \/ RelOps_remove_call

SpecRelOps == InitRelOps /\ [][NextRelOps]_vars

\* ====================================================================
\* Properties of DbStore4
\* ====================================================================

\* the identifiers of the live rows of r, and the row stored under k
Live(db, r) == DOMAIN db.pk[r]

RowAt(db, r, k) == fetch(db, r, k).val

\* the live rows of entity c whose field fk holds key
Referencing(db, c, fk, key) == {k \in Live(db, c) : RowAt(db, c, k)[fk] = key}

\* C1: after any sequence of calls none of which returned an error, every
\* stored foreign key (Track.album, Track.artist, Album.album_artist when
\* present) names a live row of its destination table.  Stated over SpecDeep,
\* in whose behaviours no call returns an error.
C1_ForeignKeysLive ==
    ~panicked =>
        \A r \in Entities : \A k \in Live(Db, r) :
            /\ \A i \in DOMAIN Fks(r) :
                  RowAt(Db, r, k)[Fks(r)[i][1]] \in Live(Db, Fks(r)[i][2])
            /\ \A i \in DOMAIN NullFks(r) :
                  RowAt(Db, r, k)[NullFks(r)[i][1]] # None =>
                      RowAt(Db, r, k)[NullFks(r)[i][1]] \in Live(Db, NullFks(r)[i][2])

\* C2: after every call each foreign-key index holds the pair (d, s) exactly
\* when s is a live row whose foreign key currently equals d.
C2_IndexMatchesRows ==
    ~panicked =>
        /\ fk_Track_album =
              {<<RowAt(Db, "Track", k).album, k>> : k \in Live(Db, "Track")}
        /\ fk_Track_artist =
              {<<RowAt(Db, "Track", k).artist, k>> : k \in Live(Db, "Track")}
        /\ fk_Album_album_artist =
              {<<RowAt(Db, "Album", k).album_artist, k>> :
                  k \in {x \in Live(Db, "Album") : RowAt(Db, "Album", x).album_artist # None}}

SeqRange(s) == {s[i] : i \in DOMAIN s}

\* one step along the Cascade relations, read from the foreign-key indices
IndexStep(db, S) ==
    S \cup UNION {UNION {{<<c[1], p[2]>> : p \in {q \in db.fk[c[1]][c[2]] : q[1] = e[2]}} :
                         c \in SeqRange(Cascade(e[1]))} : e \in S}

\* the rows reached from the rows S by following Cascade relations through
\* the foreign-key indices, S included
RECURSIVE IndexClosure(_, _)
IndexClosure(db, S) ==
    IF IndexStep(db, S) = S THEN S ELSE IndexClosure(db, IndexStep(db, S))

\* one step along the Cascade relations, read from the rows
RowStep(db, S) ==
    S \cup UNION {UNION {{<<c[1], k>> : k \in Referencing(db, c[1], c[2], e[2])} :
                         c \in SeqRange(Cascade(e[1]))} : e \in S}

\* the rows that reference a row of S through Cascade relations, transitively
RECURSIVE RowClosure(_, _)
RowClosure(db, S) ==
    IF RowStep(db, S) = S THEN S ELSE RowClosure(db, RowStep(db, S))

\* some row of the cascade closure of (r, key) is referenced through a
\* relation declared "delete deny"
DenyReferenced(db, r, key) ==
    \E e \in IndexClosure(db, {<<r, key>>}) :
        \E d \in SeqRange(Deny(e[1])) : Referencing(db, d[1], d[2], e[2]) # {}

\* C4: delete(x) on a live x returns RelationshipDeniedDelete if and only if
\* a row of the cascade closure of x is referenced through a Deny relation,
\* and otherwise the delete succeeds.
C4_DeleteDeniedIffDenyReferenced ==
    [][\A r \in Entities : \A key \in IdDom(r) :
          (last'.op = "delete" /\ key \in Live(Db, r) /\ DeleteCall(r, key)) =>
              /\ last'.res = "RelationshipDeniedDelete" <=> DenyReferenced(Db, r, key)
              /\ ~DenyReferenced(Db, r, key) => last'.res = "Ok"]_vars

\* C5: an insert call that returns an error leaves rows, indices, change log
\* and identifier counters as they were.
C5_FailedInsertChangesNothing ==
    [][\/ UNCHANGED storeVars
       \/ \A r \in Entities : \A fields \in RowInputs(r) :
             ~(last'.op = "insert" /\ last'.res \in Errors /\ InsertCall(r, fields))]_vars

\* an insert has failed on a store that holds rows and a change log
C5_Witness ==
    /\ last.op = "insert" /\ last.res \in Errors
    /\ changes # <<>> /\ Live(Db, "Album") # {}

\* the constructed row has a required foreign key, or a present optional one,
\* whose target has no live row
DanglingInput(db, r, fields) ==
    \/ \E i \in DOMAIN Fks(r) : fields[Fks(r)[i][1]] \notin Live(db, Fks(r)[i][2])
    \/ \E i \in DOMAIN NullFks(r) :
          /\ fields[NullFks(r)[i][1]] # None
          /\ fields[NullFks(r)[i][1]] \notin Live(db, NullFks(r)[i][2])

\* C6: insert returns ForeignKeyViolation whenever a required foreign key, or
\* a present optional one, of the constructed row has no live target; a row
\* whose optional key is absent and whose required keys are live is accepted.
C6_InsertChecksForeignKeys ==
    [][\A r \in Entities : \A fields \in RowInputs(r) :
          (last'.op = "insert" /\ InsertCall(r, fields)) =>
              /\ DanglingInput(Db, r, fields) => last'.res = "ForeignKeyViolation"
              /\ ( /\ \A i \in DOMAIN Fks(r) :
                         fields[Fks(r)[i][1]] \in Live(Db, Fks(r)[i][2])
                   /\ \A i \in DOMAIN NullFks(r) : fields[NullFks(r)[i][1]] = None )
                 => ( /\ last'.res = "Ok"
                      /\ next(Db.next_id[r]) \in Live(Db', r) )]_vars

\* an insert was refused for a foreign key while its entity table has a row
\* (so an accepted insert came before it)
C6_Witness ==
    /\ last.op = "insert" /\ last.res = "ForeignKeyViolation"
    /\ Live(Db, "Album") # {} /\ Live(Db, "Artist") # {}

\* C7: update(key, f) is atomic: when it returns an error the store is
\* unchanged and the row is still live with its old value; when it succeeds
\* the row is live under the same identifier with f applied.
C7_UpdateAtomic ==
    [][\A r \in Entities : \A key \in IdDom(r) : \A f \in Patches(r) :
          (last'.op = "update" /\ key \in Live(Db, r) /\ UpdateCall(r, key, f)) =>
              /\ last'.res \in Errors =>
                    /\ UNCHANGED storeVars
                    /\ key \in Live(Db', r)
                    /\ RowAt(Db', r, key) = RowAt(Db, r, key)
              /\ last'.res = "Ok" =>
                    /\ key \in Live(Db', r)
                    /\ RowAt(Db', r, key) = ApplyPatch(RowAt(Db, r, key), f)]_vars

\* C8: after a successful delete(x) the rows removed are exactly x and every
\* row that referenced a removed row through a Cascade relation,
\* transitively; every other row is still live.
C8_DeleteRemovesCascadeClosure ==
    [][\A r \in Entities : \A key \in IdDom(r) :
          (last'.op = "delete" /\ last'.res = "Ok" /\ DeleteCall(r, key)) =>
              \A e \in Entities :
                  Live(Db', e) =
                      Live(Db, e) \ {k \in Live(Db, e) : <<e, k>> \in RowClosure(Db, {<<r, key>>})}]_vars

\* a delete of an Album or an Artist has just removed a Track by cascade: the
\* log ends with the four records of the Track, right after the Removed
\* record of the deleted row, while another row is still live
C8_Witness ==
    /\ last.op = "delete" /\ last.res = "Ok"
    /\ Len(changes) >= 5
    /\ changes[Len(changes)].r = "Track"
    /\ changes[Len(changes)].field = ""
    /\ changes[Len(changes)].what = "Removed"
    /\ changes[Len(changes) - 4].r \in {"Album", "Artist"}
    /\ changes[Len(changes) - 4].field = ""
    /\ changes[Len(changes) - 4].what = "Removed"
    /\ \E e \in Entities : Live(Db, e) # {}

\* C9: a delete of Artist a succeeds, every Album whose album_artist was a is
\* still live with album_artist absent, and afterwards neither a row nor the
\* index fk_Album_album_artist refers to a.
C9_ArtistDeleteNullifies ==
    [][\A a \in IdDom("Artist") :
          (last'.op = "delete" /\ a \in Live(Db, "Artist") /\ DeleteCall("Artist", a)) =>
              /\ last'.res = "Ok"
              /\ \A x \in Referencing(Db, "Album", "album_artist", a) :
                    /\ x \in Live(Db', "Album")
                    /\ RowAt(Db', "Album", x).album_artist = None
              /\ Referencing(Db', "Album", "album_artist", a) = {}
              /\ Referencing(Db', "Track", "artist", a) = {}
              /\ \A p \in fk_Album_album_artist' : p[1] # a]_vars

\* C10: delete, fetch, update and the attribute and foreign-key setters,
\* called with an identifier that has no live row, return EntityNotFound and
\* leave rows, indices, change log and counters unchanged: a step is either
\* such a return, or it is none of these calls on a dead identifier.
C10_DeadKeyIsEntityNotFound ==
    [][\/ last'.res = "EntityNotFound" /\ UNCHANGED storeVars
       \/ \A r \in Entities : \A key \in IdDom(r) \ Live(Db, r) :
             /\ ~(last'.op = "delete" /\ DeleteCall(r, key))
             /\ ~(last'.op = "fetch" /\ FetchCall(r, key))
             /\ \A f \in Patches(r) : ~(last'.op = "update" /\ UpdateCall(r, key, f))
             /\ \A i \in DOMAIN Fks(r) : \A v \in IdDom(Fks(r)[i][2]) :
                   ~(last'.op = "set_fk" /\ SetFkCall(r, key, Fks(r)[i][1], v))
             /\ \A i \in DOMAIN NullFks(r) : \A v \in {None} \cup IdDom(NullFks(r)[i][2]) :
                   ~(last'.op = "set_nullfk" /\ SetNullFkCall(r, key, NullFks(r)[i][1], v))
             /\ \A i \in DOMAIN Attrs(r) : \A v \in Names \cup Years :
                   ~(last'.op = "set_attr" /\ SetAttrCall(r, key, Attrs(r)[i], v))]_vars

\* a call on an identifier whose row was deleted has returned EntityNotFound
C10_Witness ==
    /\ last.op \in {"delete", "fetch", "update", "set_fk", "set_nullfk", "set_attr"}
    /\ last.res = "EntityNotFound"
    /\ \E i \in DOMAIN changes : changes[i].field = "" /\ changes[i].what = "Removed"

\* C11: no sequence of public operations from the empty store reaches an
\* abort (a failed unwrap or expect): every failure is an error value.
C11_NoAbort == ~panicked

\* the events of the log with timestamp >= T, in the order they were pushed
EventsFrom(cs, T) ==
    LET sel == SelectSeq(cs, LAMBDA c : c.timestamp >= T)
    IN [j \in 1..Len(sel) |-> KindOf(sel[j])]

\* C19: since(T) returns exactly the events of the log whose timestamp is
\* greater than or equal to T, in the order they were pushed, for every T
\* from below the first timestamp to above the last.
C19_SinceReturnsEventsFrom ==
    \A T \in 0..(MaxTime + 1) : since(changes, T) = EventsFrom(changes, T)

\* since(T) has returned a proper, nonempty suffix of the log
C19_Witness ==
    \E T \in 0..(MaxTime + 1) :
        /\ since(changes, T) # <<>>
        /\ Len(since(changes, T)) < Len(changes)

\* C20: in every reachable state the timestamps of the change log are
\* non-decreasing from the first record to the last.
C20_LogTimestampsNonDecreasing ==
    \A i, j \in DOMAIN changes : i <= j => changes[i].timestamp <= changes[j].timestamp

\* records were pushed before and after a call of next()
C20_Witness ==
    \E i, j \in DOMAIN changes : changes[i].timestamp < changes[j].timestamp

\* the foreign-key fields of r, required and optional
FkFields(r) == {Fks(r)[i][1] : i \in DOMAIN Fks(r)} \cup {NullFks(r)[i][1] : i \in DOMAIN NullFks(r)}

\* the target stored in field f of the row of r under k: None without a row
\* and for an absent optional key
StoredTarget(db, r, k, f) ==
    IF fetch(db, r, k).ok THEN fetch(db, r, k).val[f] ELSE None

\* the records a step has appended to the change log
Appended == {changes'[i] : i \in (Len(changes) + 1)..Len(changes')}

\* C21: every change of a stored foreign key (by insert, delete, a required
\* or optional key setter, or nullification during the delete of the
\* referenced row) appends to the change log a Removed record carrying the
\* old target, when there was one, and an Inserted record carrying the new
\* target, when there is one, stamped with the current timestamp.
C21_ForeignKeyChangesLogged ==
    [][\A r \in Entities : \A f \in FkFields(r) : \A k \in IdDom(r) :
          LET old == StoredTarget(Db, r, k, f)
              new == StoredTarget(Db', r, k, f)
          IN (old # new /\ ~panicked') =>
                /\ old # None => Change(timestamp, r, f, "Removed", k, old) \in Appended
                /\ new # None => Change(timestamp, r, f, "Inserted", k, new) \in Appended]_vars

\* C30: the dry-run check (before_delete) never modifies the store, and for
\* a live identifier it returns Ok exactly when the delete that follows it
\* succeeds, and returns the same error that the delete returns otherwise.
C30_DryRunAgreesWithDelete ==
    [][\A r \in Entities : \A key \in IdDom(r) :
          (/\ last'.op = "delete"
           /\ fetch(Db, r, key).ok
           /\ DeleteCall(r, key)) =>
              LET check == before_delete(Db, r, fetch(Db, r, key).val)
              IN /\ check = "Ok" <=> last'.res = "Ok"
                 /\ check # "Ok" => last'.res = check]_vars

\* the records a call has appended to the change log, in order
AppendedSeq == SubSeq(changes', Len(changes) + 1, Len(changes'))

\* the positions of the entity records (no field) in a run of records
EntityPos(recs) == {i \in DOMAIN recs : recs[i].field = ""}

\* the position after the entity record that precedes position i
BlockStart(recs, i) ==
    LET before == {j \in EntityPos(recs) : j < i}
    IN IF before = {} THEN 1 ELSE 1 + CHOOSE j \in before : \A k \in before : k <= j

\* the fields of a row that have a value to record
RecordedFields(r, row) ==
    {Attrs(r)[i] : i \in DOMAIN Attrs(r)} \cup {f \in FkFields(r) : IsFk(r, f) \/ row[f] # None}

\* C31: the records a successful delete appends all carry the current
\* timestamp and are Removed records; they form blocks, each the Removed
\* records of the fields of one row (every recorded field once, with the value
\* the row had) closed by the entity Removed record of that row; the first
\* block is that of the deleted row, the later ones those of cascaded rows.
C31_DeleteLogsFieldsThenEntity ==
    [][\A r \in Entities : \A key \in IdDom(r) :
          (last'.op = "delete" /\ last'.res = "Ok" /\ DeleteCall(r, key)) =>
              LET recs == AppendedSeq
              IN /\ recs # <<>>
                 /\ recs[Len(recs)].field = ""
                 /\ \A i \in DOMAIN recs :
                        recs[i].timestamp = timestamp /\ recs[i].what = "Removed"
                 /\ LET first == CHOOSE i \in EntityPos(recs) : \A k \in EntityPos(recs) : i <= k
                    IN recs[first].r = r /\ recs[first].id = key
                 /\ \A i \in EntityPos(recs) :
                        LET e == recs[i].r
                            row == fetch(Db, e, recs[i].id).val
                            block == BlockStart(recs, i)..(i - 1)
                        IN /\ fetch(Db, e, recs[i].id).ok
                           /\ \A j \in block :
                                 /\ recs[j].r = e /\ recs[j].id = recs[i].id
                                 /\ recs[j].field \in RecordedFields(e, row)
                                 /\ recs[j].val = row[recs[j].field]
                           /\ {recs[j].field : j \in block} = RecordedFields(e, row)
                           /\ Cardinality(block) = Cardinality(RecordedFields(e, row))]_vars

\* a delete of an Album or an Artist has cascaded to a Track: the log ends
\* with the three field records and the entity record of the Track, whose
\* foreign key names the deleted row, all under the timestamp of the entity
\* record of the deleted row that precedes them
C31_Witness ==
    /\ last.op = "delete" /\ last.res = "Ok"
    /\ Len(changes) >= 7
    /\ LET n == Len(changes)
           top == changes[n - 4]
       IN /\ changes[n].r = "Track" /\ changes[n].field = "" /\ changes[n].what = "Removed"
          /\ top.r \in {"Album", "Artist"} /\ top.field = "" /\ top.what = "Removed"
          /\ \E j \in (n - 3)..(n - 1) :
                /\ changes[j].field = (IF top.r = "Album" THEN "album" ELSE "artist")
                /\ changes[j].val = top.id
                /\ changes[j].id = changes[n].id
          /\ \A j \in (n - 5)..n : changes[j].timestamp = top.timestamp
          /\ changes[n - 5].r = top.r /\ changes[n - 5].id = top.id /\ changes[n - 5].field # ""

\* C32: an attribute setter on a live row returns Ok, gives that attribute of
\* that row the new value and leaves every other field of it, every other row,
\* the primary-key maps, the indices, the counters and the timestamp as they
\* were; the log gains the Removed record of the old value and then the
\* Inserted record of the new one, both under the current timestamp.
C32_AttributeSetterFrame ==
    [][\A r \in Entities : \A key \in IdDom(r) : \A i \in DOMAIN Attrs(r) : \A v \in Names \cup Years :
          (/\ last'.op = "set_attr"
           /\ fetch(Db, r, key).ok
           /\ SetAttrCall(r, key, Attrs(r)[i], v)) =>
              LET attr == Attrs(r)[i]
                  old == RowAt(Db, r, key)
              IN /\ last'.res = "Ok" /\ ~panicked'
                 /\ \A e \in Entities : Live(Db', e) = Live(Db, e)
                 /\ \A e \in Entities : \A k \in Live(Db, e) :
                        /\ fetch(Db', e, k).ok
                        /\ RowAt(Db', e, k) =
                               IF e = r /\ k = key THEN [old EXCEPT ![attr] = v]
                               ELSE RowAt(Db, e, k)
                 /\ pk_Track' = pk_Track
                 /\ DOMAIN clustered_Track' = DOMAIN clustered_Track
                 /\ UNCHANGED <<fk_Track_album, fk_Track_artist, fk_Album_album_artist>>
                 /\ UNCHANGED <<Track_next_id, Album_next_id, Artist_next_id, timestamp>>
                 /\ changes' = changes \o <<Change(timestamp, r, attr, "Removed", key, old[attr]),
                                            Change(timestamp, r, attr, "Inserted", key, v)>>]_vars

\* an attribute setter has just replaced a value by a different one while
\* another row of the same table is live
C32_Witness ==
    /\ last.op = "set_attr" /\ last.res = "Ok"
    /\ Len(changes) >= 2
    /\ LET n == Len(changes)
       IN /\ changes[n - 1].what = "Removed" /\ changes[n].what = "Inserted"
          /\ changes[n - 1].field = changes[n].field /\ changes[n].field # ""
          /\ changes[n - 1].id = changes[n].id /\ changes[n - 1].r = changes[n].r
          /\ changes[n - 1].val # changes[n].val
          /\ changes[n].id \in Live(Db, changes[n].r)
          /\ RowAt(Db, changes[n].r, changes[n].id)[changes[n].field] = changes[n].val
          /\ Cardinality(Live(Db, changes[n].r)) >= 2

\* the closures of update that assign one plain attribute and nothing else
AttrPatches(r) ==
    {f \in Patches(r) : f # {} /\ \A q \in f : \E i \in DOMAIN Attrs(r) : Attrs(r)[i] = q[1]}

\* C33: an update of a live row whose closure assigns only a plain attribute,
\* and which does not abort, leaves every other row of every table live and
\* with the fields it had.
C33_AttributeUpdateKeepsOtherRows ==
    [][\A r \in Entities : \A key \in IdDom(r) : \A f \in AttrPatches(r) :
          (/\ last'.op = "update" /\ ~panicked'
           /\ fetch(Db, r, key).ok
           /\ UpdateCall(r, key, f)) =>
              \A e \in Entities : \A k \in Live(Db, e) :
                  (e # r \/ k # key) =>
                      /\ k \in Live(Db', e)
                      /\ fetch(Db', e, k).ok
                      /\ RowAt(Db', e, k) = RowAt(Db, e, k)]_vars

\* C34: unless a call has aborted, pk_Track sends every live Track to a key of
\* clustered_Track, the row stored there has that identifier and the key is
\* (row.album, row.id); clustered_Track has no other keys.
C34_ClusteredKeyMatchesRow ==
    ~panicked =>
        /\ \A t \in DOMAIN pk_Track :
              /\ pk_Track[t] \in DOMAIN clustered_Track
              /\ clustered_Track[pk_Track[t]].id = t
              /\ pk_Track[t] = <<clustered_Track[pk_Track[t]].album, clustered_Track[pk_Track[t]].id>>
        /\ DOMAIN clustered_Track = {pk_Track[t] : t \in DOMAIN pk_Track}

\* the number of entity records of one kind about one identifier in the log
EntityRecords(r, k, what) ==
    Cardinality({i \in DOMAIN changes :
                    /\ changes[i].r = r /\ changes[i].id = k
                    /\ changes[i].field = "" /\ changes[i].what = what})

\* C35: unless a call has aborted, for every identifier of every entity the
\* entity Inserted records in the log outnumber the entity Removed records
\* by one when the row is live and by none when it is not.
C35_EntityRecordsBalance ==
    ~panicked =>
        \A r \in Entities : \A k \in IdDom(r) :
            EntityRecords(r, k, "Inserted") - EntityRecords(r, k, "Removed") =
                IF k \in Live(Db, r) THEN 1 ELSE 0

\* one row has been inserted, removed and inserted again (an update) and is
\* live, another has been inserted and removed and is not
C35_Witness ==
    /\ ~panicked
    /\ \E r \in Entities : \E k \in IdDom(r) :
          /\ EntityRecords(r, k, "Inserted") = 2
          /\ EntityRecords(r, k, "Removed") = 1
          /\ k \in Live(Db, r)
    /\ \E r \in Entities : \E k \in IdDom(r) :
          /\ EntityRecords(r, k, "Inserted") = 1
          /\ EntityRecords(r, k, "Removed") = 1
          /\ k \notin Live(Db, r)

\* ====================================================================
\* Properties of Table<T>
\* ====================================================================

\* C12: every identifier returned by a successful insert is strictly greater
\* than every identifier returned before for that table, also after remove,
\* after clear, after a failed insert and after an update: the identifiers
\* issued for a table, in the order of the calls, strictly increase.
C12_IdentifiersIncrease ==
    \A r \in DOMAIN issued : \A i, j \in DOMAIN issued[r] :
        i < j => issued[r][i] < issued[r][j]

\* a second identifier was issued after the table was cleared
C12_Witness ==
    /\ Len(issued["Table"]) >= 2
    /\ DOMAIN tables["self"].data = {issued["Table"][Len(issued["Table"])]}

\* the table as it is and as the snapshot shows it
Current == tables["self"]

Previous == tables[snapshot]

\* the events of a delta about identifier k
EventsAbout(ev, k) == {i \in DOMAIN ev : ev[i].id = k}

\* C13: delta(current, prev) yields exactly one event for each identifier
\* whose presence or revision differs between prev and current (Insert if
\* only in current, Remove if only in prev, Update if in both with different
\* revisions), no event for any other identifier, and the events in
\* ascending identifier order.
C13_DeltaOneEventPerDifference ==
    snapshot # "none" =>
        LET ev == Table_delta(Current, Previous)
            cur == Current.data
            old == Previous.data
        IN /\ \A i, j \in DOMAIN ev : i < j => ev[i].id < ev[j].id
           /\ \A i \in DOMAIN ev : ev[i].id \in DOMAIN cur \cup DOMAIN old
           /\ \A k \in DOMAIN cur \cup DOMAIN old :
                 LET about == EventsAbout(ev, k)
                 IN IF k \notin DOMAIN old
                    THEN \E i \in about :
                            about = {i} /\ ev[i].kind = "Insert" /\ ev[i].new = cur[k].data
                    ELSE IF k \notin DOMAIN cur
                    THEN \E i \in about :
                            about = {i} /\ ev[i].kind = "Remove" /\ ev[i].old = old[k].data
                    ELSE IF cur[k].revision # old[k].revision
                    THEN \E i \in about :
                            /\ about = {i} /\ ev[i].kind = "Update"
                            /\ ev[i].old = old[k].data /\ ev[i].new = cur[k].data
                    ELSE about = {}

\* a delta with two events of different kinds, and a row left alone
C13_Witness ==
    /\ snapshot # "none"
    /\ LET ev == Table_delta(Current, Previous)
       IN /\ \E i, j \in DOMAIN ev : ev[i].kind # ev[j].kind
          /\ \E k \in DOMAIN Current.data \cap DOMAIN Previous.data : EventsAbout(ev, k) = {}

\* C14: the diff of a snapshot against a later state of the table is the net
\* effect per identifier on the row content: no event for an identifier
\* whose content is the same in both, Insert or Remove for an identifier on
\* one side only, Update for every identifier whose content changed.
C14_DiffIsNetEffect ==
    snapshot # "none" =>
        LET ev == Table_delta(Current, Previous)
            cur == Current.data
            old == Previous.data
        IN \A k \in DOMAIN cur \cup DOMAIN old :
              LET about == EventsAbout(ev, k)
              IN IF k \notin DOMAIN old
                 THEN \E i \in about : about = {i} /\ ev[i].kind = "Insert"
                 ELSE IF k \notin DOMAIN cur
                 THEN \E i \in about : about = {i} /\ ev[i].kind = "Remove"
                 ELSE IF cur[k].data # old[k].data
                 THEN \E i \in about : about = {i} /\ ev[i].kind = "Update"
                 ELSE about = {}

\* C16: a clone taken as a snapshot is not affected by any later insert,
\* remove, get_mut or clear on the original: identifiers, rows and revisions
\* seen through the snapshot stay as they were when it was taken.
C16_SnapshotUnaffected ==
    [][snapshot # "none" => snapshot' = snapshot /\ tables'[snapshot'] = tables[snapshot]]_vars

\* the original has changed since the snapshot was taken
C16_Witness ==
    /\ snapshot # "none"
    /\ tables["self"].data # tables[snapshot].data
    /\ tables["self"].next_id # tables[snapshot].next_id

\* ====================================================================
\* Properties of the generated store and of the join
\* ====================================================================

\* C15: after a snapshot of the store is taken and one Track is then
\* deleted, the diff of the snapshot against the current store yields
\* exactly one Remove event, for that Track, and no event for any other
\* Track or for the Album the Track belonged to.
C15_TrackDeleteDiff ==
    [][(/\ musicdb_prev.taken
        /\ musicdb.Album = musicdb_prev.Album /\ musicdb.Track = musicdb_prev.Track
        /\ last'.op = "Track::remove" /\ last'.res = "Ok")
       => /\ \E t \in DOMAIN musicdb.Track.data \ DOMAIN musicdb'.Track.data :
                LET ev == Table_delta(musicdb'.Track, musicdb_prev'.Track)
                IN Len(ev) = 1 /\ ev[1].kind = "Remove" /\ ev[1].id = t
          /\ Table_delta(musicdb'.Album, musicdb_prev'.Album) = <<>>]_vars

\* the tuples of a join, and their keys (left identifier, right identifier)
JoinTuples(db) == {Join_iter(db)[i] : i \in DOMAIN Join_iter(db)}

KeyOf(t) == <<t.left.id, t.id>>

JoinKeys(db) == {KeyOf(t) : t \in JoinTuples(db)}

\* the events of a join delta of one kind, by key
EventKeys(ev, kind) == {KeyOf(ev[i]) : i \in {j \in DOMAIN ev : ev[j].kind = kind}}

\* C17: the delta tuples of join.delta(S2, S1) are exactly the symmetric
\* difference of join.iter(S2) and join.iter(S1): a tuple only in the
\* current join is an Insert, a tuple only in the previous join a Remove
\* (also when its left row was deleted), and Update is emitted exactly for
\* a key in both joins with a different value; no key is reported twice.
C17_JoinDeltaIsSymmetricDifference ==
    (musicdb_prev.taken /\ ~panicked) =>
        LET ev == Join_delta(musicdb, musicdb_prev)
            cur == JoinTuples(musicdb)
            old == JoinTuples(musicdb_prev)
        IN /\ EventKeys(ev, "Insert") = JoinKeys(musicdb) \ JoinKeys(musicdb_prev)
           /\ EventKeys(ev, "Remove") = JoinKeys(musicdb_prev) \ JoinKeys(musicdb)
           /\ EventKeys(ev, "Update") =
                 {KeyOf(t) : t \in {u \in cur : \E v \in old : KeyOf(v) = KeyOf(u) /\ v # u}}
           /\ \A i, j \in DOMAIN ev : KeyOf(ev[i]) = KeyOf(ev[j]) => i = j

\* the events of a join delta about left identifier l and right identifier t
JoinEventsAbout(ev, l, t) == {i \in DOMAIN ev : ev[i].left.id = l /\ ev[i].id = t}

\* C18: in join.delta, for a left tuple l and an Update delta of a
\* destination row, the output is decided by whether the old and the new row
\* reference l: neither gives nothing, new only an Insert, old only a
\* Remove, both an Update; so a Track moved from Album a1 to Album a2 gives
\* exactly one Remove for (a1, t), one Insert for (a2, t) and no Update.
C18_JoinUpdateCases ==
    (musicdb_prev.taken /\ ~panicked) =>
        LET ev == Join_delta(musicdb, musicdb_prev)
            ds == Table_delta(musicdb.Track, musicdb_prev.Track)
            upd == {j \in DOMAIN ds : ds[j].kind = "Update"}
        IN /\ \A l \in DOMAIN musicdb.Album.data : \A j \in upd :
                 LET about == JoinEventsAbout(ev, l, ds[j].id)
                     in_old == ds[j].old.album = l
                     in_new == ds[j].new.album = l
                 IN IF in_old /\ in_new
                    THEN \E i \in about : about = {i} /\ ev[i].kind = "Update"
                    ELSE IF in_old
                    THEN \E i \in about : about = {i} /\ ev[i].kind = "Remove"
                    ELSE IF in_new
                    THEN \E i \in about : about = {i} /\ ev[i].kind = "Insert"
                    ELSE about = {}
           /\ \A j \in upd :
                 LET a1 == ds[j].old.album
                     a2 == ds[j].new.album
                     t == ds[j].id
                 IN (a1 # a2 /\ {a1, a2} \subseteq DOMAIN musicdb.Album.data) =>
                       /\ \E i \in JoinEventsAbout(ev, a1, t) :
                             JoinEventsAbout(ev, a1, t) = {i} /\ ev[i].kind = "Remove"
                       /\ \E i \in JoinEventsAbout(ev, a2, t) :
                             JoinEventsAbout(ev, a2, t) = {i} /\ ev[i].kind = "Insert"
                       /\ \A i \in DOMAIN ev : ev[i].id = t => ev[i].kind # "Update"

\* a Track was moved from one live Album to another since the snapshot
C18_Witness ==
    /\ musicdb_prev.taken /\ ~panicked
    /\ \E t \in DOMAIN musicdb.Track.data \cap DOMAIN musicdb_prev.Track.data :
          /\ musicdb.Track.data[t].data.album # musicdb_prev.Track.data[t].data.album
          /\ {musicdb.Track.data[t].data.album, musicdb_prev.Track.data[t].data.album}
                \subseteq DOMAIN musicdb.Album.data
          /\ Len(Join_delta(musicdb, musicdb_prev)) = 2

\* ====================================================================
\* Properties of the circuit operators
\* ====================================================================

\* the deltas each Integrate has consumed, as (key, multiplicity), in order
AlbumDeltas ==
    LET sel == SelectSeq(circuit.stream, LAMBDA d : d.table = "album")
    IN [i \in DOMAIN sel |-> [key |-> sel[i].key, multiplicity |-> sel[i].multiplicity]]

TrackDeltas ==
    LET sel == SelectSeq(circuit.stream, LAMBDA d : d.table = "track")
    IN [i \in DOMAIN sel |-> [key |-> sel[i].key, multiplicity |-> sel[i].multiplicity]]

IndexDeltas ==
    LET sel == SelectSeq(circuit.stream, LAMBDA d : d.table = "track")
    IN [i \in DOMAIN sel |-> [key |-> <<sel[i].album, sel[i].key>>,
                              multiplicity |-> sel[i].multiplicity]]

JoinDeltas ==
    [i \in DOMAIN circuit.joined |-> [key |-> circuit.joined[i].key,
                                      multiplicity |-> circuit.joined[i].multiplicity]]

\* the sum of the multiplicities of the deltas of ds with key k
RECURSIVE SumFor(_, _)
SumFor(ds, k) ==
    IF ds = <<>> THEN 0
    ELSE (IF Head(ds).key = k THEN Head(ds).multiplicity ELSE 0) + SumFor(Tail(ds), k)

\* state holds, for exactly the keys of ds, the sum of their multiplicities
IsRunningSum(state, ds) ==
    /\ DOMAIN state = {ds[i].key : i \in DOMAIN ds}
    /\ \A k \in DOMAIN state : state[k].multiplicity = SumFor(ds, k)

\* C22: after Integrate has consumed any sequence of deltas, the
\* multiplicity stored for each key equals the sum of the multiplicities of
\* all consumed deltas with that key, and the state pushed to the output
\* after each delta is that running sum at that point.
C22_IntegrateIsRunningSum ==
    /\ IsRunningSum(circuit.album_table, AlbumDeltas)
    /\ IsRunningSum(circuit.track_table, TrackDeltas)
    /\ IsRunningSum(circuit.track_index, IndexDeltas)
    /\ IsRunningSum(circuit.join_integrate, JoinDeltas)
    /\ circuit.album_map # <<>> => IsRunningSum(circuit.album_map[1], AlbumDeltas)
    /\ circuit.track_map # <<>> => IsRunningSum(circuit.track_map[1], TrackDeltas)

\* a key has consumed three deltas that do not cancel, and its state was pushed
C22_Witness ==
    \E k \in DOMAIN circuit.album_table :
        /\ Cardinality({i \in DOMAIN AlbumDeltas : AlbumDeltas[i].key = k}) = 3
        /\ circuit.album_table[k].multiplicity = 1
        /\ circuit.album_map[1][k].multiplicity = 1

\* the delta consumed by the step that led to this state
LastDelta(c) == c.stream[Len(c.stream)]

\* C23: each output delta of the indexed delta-join has key (ka, kb) where
\* ka is the foreign key of the B row kb, and its multiplicity is the
\* product of the A-side and the B-side multiplicities; a B delta whose
\* foreign key has no entry in A's state, and an A delta with no B entry
\* under its key, produce no output.
C23_JoinOutputIsProduct ==
    [][/\ last'.op = "track delta" =>
             LET d == LastDelta(circuit')
                 out == circuit'.join_output
             IN IF d.album \in DOMAIN circuit.album_table
                THEN /\ Len(out) = 1
                     /\ out[1].key = <<d.album, d.key>>
                     /\ fk_fn(out[1].key[2], out[1].value[2]) = out[1].key[1]
                     /\ out[1].multiplicity =
                           circuit.album_table[d.album].multiplicity * d.multiplicity
                ELSE out = <<>>
       /\ last'.op = "album delta" =>
             LET d == LastDelta(circuit')
                 out == circuit'.join_output
                 under == {k \in DOMAIN circuit.track_index : k[1] = d.key}
             IN /\ {out[i].key : i \in DOMAIN out} = under
                /\ Len(out) = Cardinality(under)
                /\ \A i \in DOMAIN out :
                      /\ fk_fn(out[i].key[2], out[i].value[2]) = out[i].key[1]
                      /\ out[i].multiplicity =
                            d.multiplicity * circuit.track_index[out[i].key].multiplicity]_vars

\* an album delta has met two tracks under its key, after a track delta met
\* an album of multiplicity 2
C23_Witness ==
    /\ last.op = "album delta"
    /\ Len(circuit.join_output) = 2
    /\ \E i \in DOMAIN circuit.joined : circuit.joined[i].multiplicity = 2

\* the first n deltas of ds
Prefix(ds, n) == SubSeq(ds, 1, n)

\* every key of ds is added only while absent and removed only while present
AddsAndRemovesAlternate(ds) ==
    \A n \in 0..Len(ds) : \A i \in 1..n : SumFor(Prefix(ds, n), ds[i].key) \in {0, 1}

\* a well-formed stream: albums and tracks are added while absent and
\* removed while present, and a track is removed with the row it was added with
WellFormed ==
    /\ AddsAndRemovesAlternate(AlbumDeltas)
    /\ AddsAndRemovesAlternate(TrackDeltas)
    /\ AddsAndRemovesAlternate(IndexDeltas)

Present(state, k) == k \in DOMAIN state /\ state[k].multiplicity = 1

LastInsert(k) ==
    LET ins == {i \in DOMAIN circuit.stream :
                   /\ circuit.stream[i].table = "track" /\ circuit.stream[i].key = k
                   /\ circuit.stream[i].multiplicity = 1}
    IN CHOOSE i \in ins : \A j \in ins : j <= i

\* C36: on a well-formed stream, for every track key whose multiplicity in the
\* state of Integrate is +1, the stored value is the value carried by the most
\* recent insert delta of that key.
C36_IntegrateHoldsLatestValue ==
    WellFormed =>
        \A k \in DOMAIN circuit.track_table :
            circuit.track_table[k].multiplicity = 1 =>
                circuit.track_table[k].value.album = circuit.stream[LastInsert(k)].album

\* ====================================================================
\* Properties of generate_store and of the store it generates
\* ====================================================================

\* the delete rule of the relation declared in e: the declared one, or the
\* default for the multiplicity of the inverse side
ResolvedRule(schema, e) ==
    IF schema[e].delete_rule = "None"
    THEN default_delete_rule(schema[Destination(e)].multiplicity)
    ELSE schema[e].delete_rule

C29_OneToOneRequiredRejected ==
    (/\ gen.result # "none"
     /\ gen.schema["S"].multiplicity = "One"
     /\ gen.schema["D"].multiplicity = "One") =>
        /\ gen.result # "Ok"
        /\ gen.code = NoCode
        /\ gen.store = GenStore_new

\* the macro was expanded on a schema with both sides One and returned an error
C29_Witness ==
    /\ gen.schema["S"].multiplicity = "One"
    /\ gen.schema["D"].multiplicity = "One"
    /\ last.op = "generate_store"
    /\ gen.result = "can't have a one-to-one relation with a required destination"

\* the error generate_store returns for a schema with both sides One
OneOneError == generate_store([S |-> Rel_parse("One"), D |-> Rel_parse("One")]).result

\* C37: generate_store returns, for a schema in which a relation of
\* multiplicity ZeroOrOne has an inverse of multiplicity One, the error it
\* returns for One/One; for a schema in which a relation of multiplicity Many
\* has an inverse of multiplicity One it returns Ok.
C37_OptionalToRequiredRejected ==
    gen.result # "none" =>
        \A e \in {"S", "D"} :
            /\ (/\ gen.schema[e].multiplicity = "ZeroOrOne"
                /\ gen.schema[Destination(e)].multiplicity = "One") =>
                   /\ gen.result = OneOneError
                   /\ gen.result # "Ok"
                   /\ gen.code = NoCode
            /\ (/\ gen.schema[e].multiplicity = "Many"
                /\ gen.schema[Destination(e)].multiplicity = "One") => gen.result = "Ok"

\* the macro was expanded on a schema whose optional relation has a required
\* inverse and returned the error of the one-to-one case
C37_Witness ==
    /\ gen.schema["S"].multiplicity = "ZeroOrOne"
    /\ gen.schema["D"].multiplicity = "One"
    /\ last.op = "generate_store"
    /\ gen.result = OneOneError
    /\ gen.result # "Ok"

\* the targets of the relation of row idx of e
Targets(store, e, idx) == {store[e].data[idx][i] : i \in DOMAIN store[e].data[idx]}

\* C25: in a generated store, for every relation R from S to D that has an
\* inverse R', after every successful insert, remove and relation setter
\* call: d is a target of row(s).R if and only if s is a target of
\* row(d).R', also for rows inserted with a non-empty to-many relation and
\* rows removed while they hold an optional target.
C25_InverseRelationsAgree ==
    (gen.result = "Ok" /\ ~panicked) =>
        \A e \in {"S", "D"} : \A s \in DOMAIN gen.store[e].data : \A d \in GenIds :
            d \in Targets(gen.store, e, s)
                <=> /\ HasRow(gen.store, Destination(e), d)
                    /\ s \in Targets(gen.store, Destination(e), d)

\* the inverse relation of the live row d is full: a ZeroOrOne inverse that
\* already has a source
InverseFull(g, e, d) ==
    /\ HasRow(g.store, Destination(e), d)
    /\ g.schema[Destination(e)].multiplicity = "ZeroOrOne"
    /\ g.store[Destination(e)].data[d] # <<>>

\* C26: an insert, or a relation setter, whose target d already holds a full
\* inverse relation returns RelationshipTooManyTargets, and then no row is
\* added and no relation field of any row is changed; a to-many inverse is
\* never full.
C26_FullInverseRefused ==
    [][/\ \A e \in {"S", "D"} : \A data \in RelInputs(gen.schema[e].multiplicity) :
             (/\ last'.op = "insert"
              /\ \E i \in DOMAIN data : InverseFull(gen, e, data[i])
              /\ Gen_insert_call(e, data)) =>
                 last'.res = "RelationshipTooManyTargets" /\ gen'.store = gen.store
       /\ \A e \in {"S", "D"} : \A s \in GenIds :
             \A d \in RelInputs(gen.schema[e].multiplicity) :
                (/\ last'.op = "set_rel"
                 /\ \E i \in DOMAIN d : InverseFull(gen, e, d[i])
                 /\ Gen_set_rel_call(e, s, d)) =>
                    last'.res = "RelationshipTooManyTargets" /\ gen'.store = gen.store
       /\ (/\ gen'.schema["S"].multiplicity = "Many"
           /\ gen'.schema["D"].multiplicity = "Many") =>
              last'.res # "RelationshipTooManyTargets"]_vars

\* C27: when a relation declares no delete rule, the rule is resolved from
\* the multiplicity of the inverse side alone (One gives Deny, ZeroOrOne and
\* Many give Nullify, never Cascade), and for every relation with an inverse
\* the resolved rule is the one the generated remove applies: Deny refuses
\* the remove of a row that has targets, Nullify lets the remove succeed and
\* leaves no target row referring to the removed row.
C27_DefaultDeleteRuleApplied ==
    [][\A e \in {"S", "D"} :
          LET rule == ResolvedRule(gen.schema, e)
              inv_m == gen.schema[Destination(e)].multiplicity
          IN /\ gen.schema[e].delete_rule = "None" =>
                   rule = (IF inv_m = "One" THEN "Deny" ELSE "Nullify")
             /\ \A s \in DOMAIN gen.store[e].data :
                   (last'.op = "remove" /\ Gen_remove_call(e, s)) =>
                      /\ (rule = "Deny" /\ gen.store[e].data[s] # <<>>) =>
                            /\ last'.res = "RelationshipDeniedDelete"
                            /\ gen'.store = gen.store
                      /\ rule = "Nullify" =>
                            /\ last'.res = "Ok"
                            /\ ~HasRow(gen'.store, e, s)
                            /\ \A d \in DOMAIN gen'.store[Destination(e)].data :
                                  s \notin Targets(gen'.store, Destination(e), d)]_vars

\* ====================================================================
\* Properties of range_helper and of RelOps for Vec<T>
\* ====================================================================

\* C38: a scan over range_helper(a..=a) returns every pair of the set whose
\* first component is a, each once, and no other pair, in ascending order of
\* the second component, whatever the set holds.
C38_RangeHelperSelectsDestination ==
    range_scan.a # None =>
        LET out == range_scan.out
        IN /\ {out[i] : i \in DOMAIN out} = {p \in range_scan.index : p[1] = range_scan.a}
           /\ Len(out) = Cardinality({p \in range_scan.index : p[1] = range_scan.a})
           /\ \A i \in DOMAIN out : \A j \in DOMAIN out : i < j => out[i][2] < out[j][2]

\* a scan has returned the pairs of its destination with the sources MIN and
\* MAX while the set holds pairs of a smaller and of a larger destination
C38_Witness ==
    /\ range_scan.a # None
    /\ Len(range_scan.out) >= 2
    /\ range_scan.out[1][2] = IdxMIN
    /\ range_scan.out[Len(range_scan.out)][2] = IdxMAX
    /\ \E p \in range_scan.index : p[1] < range_scan.a
    /\ \E p \in range_scan.index : p[1] > range_scan.a

\* C39: a Vec that started empty and was changed by RelOps::insert and
\* RelOps::remove holds no identifier twice, and right after remove(x) it
\* does not hold x.
C39_VecHasNoDuplicates ==
    /\ \A i \in DOMAIN rel_vec.vec : \A j \in DOMAIN rel_vec.vec :
          i # j => rel_vec.vec[i] # rel_vec.vec[j]
    /\ rel_vec.op = "remove" => ~Vec_contains(rel_vec.vec, rel_vec.index)

\* remove has taken an element that was not the last out of a Vec of three:
\* the last element has moved into its place
C39_Witness ==
    /\ rel_vec.op = "remove"
    /\ Len(rel_vec.prev) = 3
    /\ Vec_contains(rel_vec.prev, rel_vec.index)
    /\ rel_vec.prev[3] # rel_vec.index
    /\ Len(rel_vec.vec) = 2

====
